---- MODULE Spec2Model ----
(***************************************************************************)
(* State-machine model of the cgc / geoclustering co- and tri-clustering   *)
(* package:                                                                *)
(*   - the run orchestrator cgc.coclustering.Coclustering                  *)
(*     (specification Spec),                                               *)
(*   - the older orchestrator geoclustering.coclustering.Coclustering      *)
(*     (specification SpecGeo),                                            *)
(*   - the alternating optimizer loops cgc.triclustering_numpy and         *)
(*     geoclustering.coclustering_dask (specification SpecOpt), and the    *)
(*     body of one of their iterations (specification SpecIter), the       *)
(*     block averages of an iteration in exact arithmetic (specification   *)
(*     SpecBlk), the loop over repeated partitions (specification SpecFp)  *)
(*     and the arrays of concurrent runs (specification SpecMem),          *)
(*   - run_with_threads with the optimizer of every run followed           *)
(*     (specification SpecRun),                                            *)
(*   - the refinement cgc.kmeans.Kmeans (specification SpecKm).            *)
(***************************************************************************)
EXTENDS Integers, Sequences, FiniteSets, TLC

(***************************************************************************)
(* Bounds of the model.                                                    *)
(***************************************************************************)
MaxRuns == 2        \* nruns ranges over 1..MaxRuns
MaxThreads == 2     \* nthreads / number of Dask workers ranges over 1..MaxThreads
MaxSessions == 2    \* number of run_with_* calls made on one orchestrator
MaxErr == 1         \* a run's error ranges over -MaxErr..MaxErr
MaxCaller == 1      \* number of changes a caller makes to returned objects
ZRows == 2          \* Z.shape[0]
ZCols == 3          \* Z.shape[1]
ZBnds == 2          \* number of bands of a 3-D Z
NClusters == 2      \* number of clusters of every axis
MaxDist == 1        \* a distance ranges over 0..MaxDist
MaxThreshold == 2   \* conv_threshold (errobj) ranges up to MaxThreshold
MaxIters == 3       \* max_iterations (niters) ranges over 0..MaxIters

\* Python's None.  Optional values are kept as sequences: None is <<>>, a
\* number x is <<x>>, a label array is its (non-empty) sequence of labels and
\* a reference is a triple.
None == <<>>

Some(x) == <<x>>

ErrVals == (0 - MaxErr)..MaxErr

Min(S) == CHOOSE x \in S : \A y \in S : x <= y

(***************************************************************************)
(* State of the orchestrators.                                             *)
(*   ctor     "new" before Coclustering(...), "ok" once constructed,       *)
(*            "raised" when __init__ raised                                *)
(*   self     the input parameters kept on the object                      *)
(*   results  self.results (CoclusteringResults); label attributes are     *)
(*            REFERENCES into heap                                         *)
(*   heap     the label arrays: reference -> content                       *)
(*   ret      the object the last run_with_* call returned                 *)
(*   call     the arguments of the run_with_* call in progress             *)
(*   pc       position of the orchestrator's thread                        *)
(*   futures  one record per submitted run                                 *)
(*   session  number of run_with_* calls made so far                       *)
(*   nwrites  number of results.write calls made by the current call       *)
(*   disk     what the last results.write persisted                        *)
(*   ncaller  number of changes callers made to returned objects           *)
(*   dist     the data array as the runs of the current call get it: the   *)
(*            number of client.scatter calls, the handle obtained, and     *)
(*            the Z argument of every run                                  *)
(*   geo      the attributes and loop locals of geoclustering's            *)
(*            Coclustering                                                 *)
(*   opt      the locals of one optimizer run (triclustering, or the Dask  *)
(*            coclustering of geoclustering)                               *)
(*   it       the locals of the body of one optimizer iteration, with the  *)
(*            cluster matrices and the distance matrices                   *)
(*   km       the Kmeans refinement: its object and its results            *)
(*   blk      the block averages of one iteration, with the data and       *)
(*            epsilon they are computed from                               *)
(*   fp       the optimizer loop followed over repeated partitions         *)
(*   mem      the arrays of concurrent optimizer runs of one call: the     *)
(*            caller's arrays, each run's own arrays, and which array      *)
(*            each label name of a run is bound to                         *)
(***************************************************************************)
VARIABLES ctor, self, results, heap, ret, call, pc, futures, session,
          nwrites, disk, ncaller, dist, geo, opt, it, km, blk, fp, mem

ovars == <<ctor, self, results, heap, ret, call, pc, futures, session,
           nwrites, disk, ncaller, dist>>

vars == <<ovars, geo, opt, it, km, blk, fp, mem>>

(***************************************************************************)
(* Label arrays.  Every run returns its own freshly allocated row and      *)
(* column arrays; the array of run i of call s along axis ax has the       *)
(* reference <<s, i, ax>>, and its content identifies the labels that run  *)
(* computed.  An array a caller has written into holds Clobbered.          *)
(***************************************************************************)
Axes == {"row", "col"}

Refs == (1..MaxSessions) \X (1..MaxRuns) \X Axes

Clobbered == <<"clobbered">>

Unallocated == <<"unallocated">>

LabelsOf(s, i, ax) == <<"labels", s, i, ax>>

Deref(h, ref) == IF ref = None THEN None ELSE h[ref]

(***************************************************************************)
(* CoclusteringResults.__init__                                            *)
(***************************************************************************)
CoclusteringResults ==
    [row_clusters |-> None, col_clusters |-> None, error |-> None,
     nruns_completed |-> 0, nruns_converged |-> 0]

(***************************************************************************)
(* Coclustering.__init__: the two guarded asserts on the initial           *)
(* partitions, and the assert on Z.ndim.                                   *)
(***************************************************************************)
InitChoices == {None, [i \in 1..ZRows |-> 0], [i \in 1..ZCols |-> 0]}

\* faulty variant: the check on nruns left out
InitAssertsShapeOnly(nruns, ri, ci) ==
    (ri # None /\ ci # None) => <<ZRows, ZCols>> = <<Len(ri), Len(ci)>>

InitAsserts(nruns, ri, ci) ==
    (ri # None /\ ci # None) =>
        /\ nruns = 1
        /\ <<ZRows, ZCols>> = <<Len(ri), Len(ci)>>

Construct ==
    /\ ctor = "new"
    /\ \E ndim \in {2, 3}, nruns \in 1..MaxRuns,
          ri \in InitChoices, ci \in InitChoices :
         /\ self' = [nruns |-> nruns, row_clusters_init |-> ri,
                     col_clusters_init |-> ci]
         /\ results' = CoclusteringResults
         /\ ctor' = IF ndim = 2 /\ InitAsserts(nruns, ri, ci)
                    THEN "ok" ELSE "raised"
    /\ UNCHANGED <<heap, ret, call, pc, futures, session, nwrites, disk,
                   ncaller, geo, opt, it, km, dist, blk, fp, mem>>

(***************************************************************************)
(* Futures.  st: "pending" (submitted, not started), "running",            *)
(* "finished" (result or exception available), "consumed" (drained by the  *)
(* orchestrator).  A finished run carries the tuple the optimizer          *)
(* returned, or failed = TRUE when the run raised.                         *)
(***************************************************************************)
Outcomes ==
    [failed : {FALSE}, converged : BOOLEAN, e : ErrVals]
      \cup {[failed |-> TRUE, converged |-> FALSE, e |-> 0]}

NoFuture == [st |-> "none", failed |-> FALSE, converged |-> FALSE, e |-> 0]

NRuns == Len(futures)

Count(st) == Cardinality({i \in 1..NRuns : futures[i].st = st})

Submitted(i) == futures[i].st # "none"

AllSubmitted == \A i \in 1..NRuns : Submitted(i)

AllConsumed == \A i \in 1..NRuns : futures[i].st = "consumed"

(***************************************************************************)
(* run_with_threads / run_with_dask are entered.                           *)
(***************************************************************************)
Calls ==
    [method : {"run_with_threads"}, low_memory : BOOLEAN,
     workers : 1..MaxThreads]
      \cup [method : {"run_with_dask"}, low_memory : {FALSE},
            workers : {MaxThreads}]
      \cup [method : {"run_with_dask"}, low_memory : {TRUE}, workers : {1}]

Sequential(c) == c.method = "run_with_dask" /\ c.low_memory

\* _dask_runs_performance: run_with_dask(low_memory=False)
Performance(c) == c.method = "run_with_dask" /\ ~c.low_memory

(***************************************************************************)
(* The data array handed to the runs.  self.Z is the caller's array; the   *)
(* handle client.scatter returns in call s is <<"scattered", s>>.          *)
(***************************************************************************)
TheArray == <<"self.Z">>

NoScatter == [nscatter |-> 0, Z |-> TheArray, args |-> <<>>]

\* Z = self.client.scatter(self.Z), the first statement of
\* _dask_runs_performance; the other backends have no such statement
Scatter(c, s) ==
    IF Performance(c)
    THEN [nscatter |-> 1, Z |-> <<"scattered", s>>, args |-> <<>>]
    ELSE NoScatter

\* faulty variant: every run is handed the array itself
ZArgumentOwnTransfer(c, d) == TheArray

\* the Z argument of submit / of the call: the local Z (the handle) in
\* _dask_runs_performance, self.Z elsewhere
ZArgument(c, d) == IF Performance(c) THEN d.Z ELSE TheArray

Enter ==
    /\ ctor = "ok"
    /\ pc \in {"idle", "returned", "raised"}
    /\ session < MaxSessions
    /\ \E c \in Calls :
         /\ call' = c
         /\ dist' = Scatter(c, session + 1)
         /\ pc' = IF Sequential(c) THEN "loop"
                  ELSE IF self.nruns = 0 THEN "drain" ELSE "submit"
    /\ session' = session + 1
    /\ futures' = [i \in 1..self.nruns |-> NoFuture]
    /\ nwrites' = 0
    /\ UNCHANGED <<ctor, self, results, heap, ret, disk, ncaller, geo, opt,
                   it, km, blk, fp, mem>>

(***************************************************************************)
(* executor.submit / client.submit: the list comprehension submits the     *)
(* runs one after the other; the as_completed loop starts after the last.  *)
(***************************************************************************)
Submit ==
    /\ pc = "submit"
    /\ \E i \in 1..NRuns :
         /\ futures[i].st = "none"
         /\ \A j \in 1..(i - 1) : Submitted(j)
         /\ futures' = [futures EXCEPT ![i].st = "pending"]
         /\ dist' = [dist EXCEPT !.args = Append(@, ZArgument(call, dist))]
         /\ pc' = IF i = NRuns THEN "drain" ELSE "submit"
    /\ UNCHANGED <<ctor, self, results, heap, ret, call, session,
                   nwrites, disk, ncaller, geo, opt, it, km, blk, fp, mem>>

(***************************************************************************)
(* A worker of the pool (ThreadPoolExecutor(max_workers=nthreads), or the  *)
(* Dask cluster) takes the oldest pending run.                             *)
(***************************************************************************)
FreeWorker(c) == Count("running") < c.workers

Start ==
    /\ pc \in {"submit", "drain", "unwind"}
    /\ FreeWorker(call)
    /\ \E i \in 1..NRuns :
         /\ futures[i].st = "pending"
         /\ \A j \in 1..(i - 1) : futures[j].st # "pending"
         /\ futures' = [futures EXCEPT ![i].st = "running"]
    /\ UNCHANGED <<ctor, self, results, heap, ret, call, pc, session,
                   nwrites, disk, ncaller, geo, opt, it, km, dist, blk, fp, mem>>

(***************************************************************************)
(* _dask_runs_memory: iteration r of `for r in range(self.nruns)` calls    *)
(* coclustering_dask.coclustering in the orchestrator's own thread.        *)
(***************************************************************************)
\* faulty variant: the next run is started without waiting for the previous one
NextIterationEager(i) == TRUE

NextIteration(i) == \A j \in 1..(i - 1) : futures[j].st = "consumed"

CallRun ==
    /\ pc = "loop"
    /\ \E i \in 1..NRuns :
         /\ futures[i].st = "none"
         /\ \A j \in 1..(i - 1) : Submitted(j)
         /\ NextIteration(i)
         /\ futures' = [futures EXCEPT ![i].st = "running"]
         /\ dist' = [dist EXCEPT !.args = Append(@, ZArgument(call, dist))]
    /\ UNCHANGED <<ctor, self, results, heap, ret, call, pc, session,
                   nwrites, disk, ncaller, geo, opt, it, km, blk, fp, mem>>

(***************************************************************************)
(* A run returns (converged, niters, row, col, e) or raises.               *)
(***************************************************************************)
Finish ==
    /\ \E i \in 1..NRuns, o \in Outcomes :
         /\ futures[i].st = "running"
         /\ futures' = [futures EXCEPT ![i] =
                           [st |-> "finished", failed |-> o.failed,
                            converged |-> o.converged, e |-> o.e]]
    /\ UNCHANGED <<ctor, self, results, heap, ret, call, pc, session,
                   nwrites, disk, ncaller, geo, opt, it, km, dist, blk, fp, mem>>

(***************************************************************************)
(* The body of the result loop of cgc's Coclustering.                      *)
(***************************************************************************)
\* faulty variant: every run is counted as converged
TallyAllConverged(res, converged) ==
    [res EXCEPT !.nruns_completed = @ + 1, !.nruns_converged = @ + 1]

\* lines 153-159: the counters
Tally(res, converged) ==
    [res EXCEPT !.nruns_completed = @ + 1,
                !.nruns_converged = IF converged THEN @ + 1 ELSE @]

\* faulty variant: only the first result is ever kept
ImprovesOnlyFirst(e, best) == best = None

\* faulty variant: the comparison reversed
ImprovesReversed(e, best) == best = None \/ e > best[1]

\* faulty variant: the comparison not strict
ImprovesOrEqual(e, best) == best = None \/ e <= best[1]

\* line 160: if self.results.error is None or e < self.results.error
Improves(e, best) == best = None \/ e < best[1]

\* faulty variant: the labels are rebound, the error of the first run stays
RetainLabelsOnly(res, row, col, e) ==
    [res EXCEPT !.row_clusters = row, !.col_clusters = col,
                !.error = IF @ = None THEN Some(e) ELSE @]

\* faulty variant: the error is recorded, the labels are not rebound
RetainErrorOnly(res, row, col, e) == [res EXCEPT !.error = Some(e)]

\* lines 161-163: the attributes are rebound to the run's arrays
Retain(res, row, col, e) ==
    [res EXCEPT !.row_clusters = row, !.col_clusters = col,
                !.error = Some(e)]

\* Results.write: the attribute values are serialised to the file
Snapshot(res, h) ==
    [row_clusters |-> Deref(h, res.row_clusters),
     col_clusters |-> Deref(h, res.col_clusters),
     error |-> res.error,
     nruns_completed |-> res.nruns_completed,
     nruns_converged |-> res.nruns_converged]

write(res, h) == Some(Snapshot(res, h))

\* the arrays run i of the current call returned
Allocate(h, s, i) ==
    [h EXCEPT ![<<s, i, "row">>] = LabelsOf(s, i, "row"),
              ![<<s, i, "col">>] = LabelsOf(s, i, "col")]

\* where the exception of a failed run leaves the orchestrator: leaving the
\* `with ThreadPoolExecutor` block waits for every submitted run
RaiseTo(c) == IF c.method = "run_with_threads" THEN "unwind" ELSE "raised"

Consume ==
    /\ pc \in {"drain", "loop"}
    /\ \E i \in 1..NRuns :
         /\ futures[i].st = "finished"
         /\ futures' = [futures EXCEPT ![i].st = "consumed"]
         /\ IF futures[i].failed
            THEN /\ pc' = RaiseTo(call)
                 /\ UNCHANGED <<results, heap, nwrites, disk>>
            ELSE LET tallied == Tally(results, futures[i].converged)
                     e == futures[i].e
                 IN  /\ pc' = pc
                     /\ IF Improves(e, tallied.error)
                        THEN /\ results' = Retain(tallied, <<session, i, "row">>,
                                                  <<session, i, "col">>, e)
                             /\ heap' = Allocate(heap, session, i)
                             /\ disk' = write(results', heap')
                             /\ nwrites' = nwrites + 1
                        ELSE /\ results' = tallied
                             /\ UNCHANGED <<heap, nwrites, disk>>
    /\ UNCHANGED <<ctor, self, ret, call, session, ncaller, geo, opt, it, km, dist, blk, fp, mem>>

\* the exception leaves the `with` block once no run is pending or running
Unwind ==
    /\ pc = "unwind"
    /\ Count("pending") = 0 /\ Count("running") = 0
    /\ pc' = "raised"
    /\ UNCHANGED <<ctor, self, results, heap, ret, call, futures,
                   session, nwrites, disk, ncaller, geo, opt, it, km, dist, blk, fp, mem>>

(***************************************************************************)
(* After the loop: the final write, and the (shallow) copy.copy of         *)
(* self.results is returned: a new object whose attributes are bound to    *)
(* the same values, the arrays included.                                   *)
(***************************************************************************)
copy(res) == Some(res)

Return ==
    /\ pc \in {"drain", "loop"}
    /\ AllConsumed
    /\ disk' = write(results, heap)
    /\ nwrites' = nwrites + 1
    /\ ret' = copy(results)
    /\ pc' = "returned"
    /\ UNCHANGED <<ctor, self, results, heap, call, futures, session,
                   ncaller, geo, opt, it, km, dist, blk, fp, mem>>

(***************************************************************************)
(* The caller, holding the returned object: writes into one of its label   *)
(* arrays in place, or rebinds one of its attributes.                      *)
(***************************************************************************)
Attr(res, ax) == IF ax = "row" THEN res.row_clusters ELSE res.col_clusters

CallerWrites ==
    /\ pc \in {"returned", "raised"}
    /\ ncaller < MaxCaller
    /\ ret # None
    /\ \E ax \in Axes :
         /\ Attr(ret[1], ax) # None
         /\ heap[Attr(ret[1], ax)] # Clobbered
         /\ heap' = [heap EXCEPT ![Attr(ret[1], ax)] = Clobbered]
    /\ ncaller' = ncaller + 1
    /\ UNCHANGED <<ctor, self, results, ret, call, pc, futures,
                   session, nwrites, disk, geo, opt, it, km, dist, blk, fp, mem>>

CallerRebinds ==
    /\ pc \in {"returned", "raised"}
    /\ ncaller < MaxCaller
    /\ ret # None
    /\ ret[1].error # None
    /\ ret' = Some([ret[1] EXCEPT !.error = None])
    /\ ncaller' = ncaller + 1
    /\ UNCHANGED <<ctor, self, results, heap, call, pc, futures,
                   session, nwrites, disk, geo, opt, it, km, dist, blk, fp, mem>>

(***************************************************************************)
(* geoclustering's Coclustering: the best run is kept in the locals        *)
(* row_min, col_min, e_min and copied to the object after the loop.  The   *)
(* labels are kept by content here: nothing is returned to a caller.       *)
(***************************************************************************)
GeoCalls ==
    [method : {"run_with_threads"}, low_memory : {FALSE},
     workers : 1..MaxThreads]
      \cup [method : {"run_with_dask"}, low_memory : {FALSE},
            workers : {MaxThreads}]
      \cup [method : {"run_with_dask"}, low_memory : {TRUE}, workers : {1}]

\* row_min, col_min, e_min = None, None, 0.
GeoSeed == 0

GeoEnter ==
    /\ pc \in {"idle", "returned", "raised"}
    /\ session < MaxSessions
    /\ \E c \in GeoCalls :
         /\ call' = c
         /\ dist' = Scatter(c, session + 1)
         /\ pc' = IF Sequential(c) THEN "loop"
                  ELSE IF self.nruns = 0 THEN "drain" ELSE "submit"
    /\ session' = session + 1
    /\ futures' = [i \in 1..self.nruns |-> NoFuture]
    /\ geo' = [geo EXCEPT !.row_min = None, !.col_min = None,
                          !.e_min = GeoSeed]
    /\ UNCHANGED <<ctor, self, results, heap, ret, nwrites, disk, ncaller,
                   opt, it, km, blk, fp, mem>>

\* if e < e_min
GeoImproves(e, e_min) == e < e_min

GeoConsume ==
    /\ pc \in {"drain", "loop"}
    /\ \E i \in 1..NRuns :
         /\ futures[i].st = "finished"
         /\ futures' = [futures EXCEPT ![i].st = "consumed"]
         /\ IF futures[i].failed
            THEN /\ pc' = RaiseTo(call)
                 /\ geo' = geo
            ELSE /\ pc' = pc
                 /\ geo' = IF GeoImproves(futures[i].e, geo.e_min)
                           THEN [geo EXCEPT
                                   !.row_min = LabelsOf(session, i, "row"),
                                   !.col_min = LabelsOf(session, i, "col"),
                                   !.e_min = futures[i].e]
                           ELSE geo
    /\ UNCHANGED <<ctor, self, results, heap, ret, call, session, nwrites,
                   disk, ncaller, opt, it, km, dist, blk, fp, mem>>

\* after the loop.  The Dask variants call row_min.compute(), which raises
\* AttributeError when row_min is still None.
GeoStore ==
    /\ pc \in {"drain", "loop"}
    /\ AllConsumed
    /\ IF call.method = "run_with_dask" /\ geo.row_min = None
       THEN /\ pc' = "raised"
            /\ geo' = geo
       ELSE /\ pc' = "returned"
            /\ geo' = [geo EXCEPT !.row_clusters = geo.row_min,
                                  !.col_clusters = geo.col_min,
                                  !.error = Some(geo.e_min)]
    /\ UNCHANGED <<ctor, self, results, heap, ret, call, futures, session,
                   nwrites, disk, ncaller, opt, it, km, dist, blk, fp, mem>>

(***************************************************************************)
(* The alternating optimizer: triclustering (cgc.triclustering_numpy) and  *)
(* the Dask coclustering of geoclustering.  Both run the same loop; the    *)
(* coclustering has no band axis and takes no initial partitions.          *)
(* A label array is the sequence of its labels, position p of the axis at  *)
(* index p + 1; labels are 0-based as in the code.                         *)
(* The divergence (_distance) is a real-valued function of the data and    *)
(* of the block averages; here each evaluation yields an arbitrary matrix  *)
(* of distances, one row per position and one column per candidate         *)
(* cluster.                                                                *)
(***************************************************************************)
Clusters == 0..(NClusters - 1)

DistVals == 0..MaxDist

Distances(n_el) == [1..n_el -> [Clusters -> DistVals]]

Abs(x) == IF x < 0 THEN 0 - x ELSE x

RECURSIVE SumSeq(_)
SumSeq(q) == IF q = <<>> THEN 0 ELSE Head(q) + SumSeq(Tail(q))

\* faulty variant: the distance to cluster 0, not the minimal one
MinValsOfFirstCluster(d) == [p \in DOMAIN d |-> d[p][0]]

\* np.min(d, axis=1)
MinVals(d) == [p \in DOMAIN d |-> Min({d[p][c] : c \in Clusters})]

\* faulty variant: of equal least distances the last index is taken
ArgMinLast(d) ==
    [p \in DOMAIN d |->
       CHOOSE c \in Clusters :
         /\ \A c2 \in Clusters : d[p][c] <= d[p][c2]
         /\ \A c2 \in Clusters : d[p][c2] = d[p][c] => c2 <= c]

\* faulty variant: 1-based indices
ArgMinOneBased(d) ==
    [p \in DOMAIN d |->
       1 + Min({c \in Clusters : \A c2 \in Clusters : d[p][c] <= d[p][c2]})]

\* np.argmin(d, axis=1): the first index holding the minimum
ArgMin(d) ==
    [p \in DOMAIN d |->
       Min({c \in Clusters : \A c2 \in Clusters : d[p][c] <= d[p][c2]})]

\* _initialize_clusters: a random permutation of (i mod n_clusters)
Residues(n_el) == [p \in 1..n_el |-> (p - 1) % NClusters]

InitializeClusters(n_el) ==
    {v \in [1..n_el -> Clusters] :
       \A c \in Clusters :
         Cardinality({p \in 1..n_el : v[p] = c})
           = Cardinality({p \in 1..n_el : Residues(n_el)[p] = c})}

\* what a caller may pass as an initial partition of an axis: a partition,
\* an array holding a label that is no cluster, an array of another length
SuppliedInits(n_el) ==
    {[p \in 1..n_el |-> 0],
     [p \in 1..n_el |-> IF p = n_el THEN NClusters ELSE 0],
     [p \in 1..(n_el + 1) |-> 0]}

ValidLabels(v, n_el) ==
    /\ Len(v) = n_el
    /\ \A p \in 1..n_el : v[p] \in Clusters

\* np.bincount / np.eye(n_clusters)[cluster_idx] / np.einsum at the head of
\* an iteration raise on a label that is no cluster and on a length that
\* does not match Z
IterationInputsOK(o) ==
    /\ ValidLabels(o.row_clusters, ZRows)
    /\ ValidLabels(o.col_clusters, ZCols)
    /\ o.kind = "triclustering" => ValidLabels(o.bnd_clusters, ZBnds)

\* faulty variant: one iteration too many
LoopCondOffByOne(converged, s, niters) == ~converged /\ s <= niters

\* while (not converged) & (s < niters)
LoopCond(converged, s, niters) == ~converged /\ s < niters

\* faulty variant: only a decrease of the error counts
ConvergedOnDecrease(e, old_e, errobj) ==
    old_e - e > 0 /\ old_e - e < errobj

\* converged = abs(e - old_e) < errobj
Converged(e, old_e, errobj) == Abs(e - old_e) < errobj

\* faulty variant: the error starts from 0 like old_e
SeedEZero(errobj) == 0

\* e, old_e = 2 * errobj, 0
SeedE(errobj) == 2 * errobj

OptIdle ==
    [kind |-> "none", pc |-> "idle", errobj |-> 1, niters |-> 0,
     row_clusters_init |-> None, col_clusters_init |-> None,
     bnd_clusters_init |-> None,
     row_clusters |-> <<>>, col_clusters |-> <<>>, bnd_clusters |-> <<>>,
     bound |-> FALSE, e |-> 0, old_e |-> 0, s |-> 0, converged |-> FALSE]

\* lines 49-59 of triclustering: the labels are the caller's arrays where
\* given, random otherwise
EntryLabels(init, n_el) ==
    IF init = None THEN InitializeClusters(n_el) ELSE {init}

Triclustering(errobj, niters, ri, ci, bi, r, c, b) ==
    [kind |-> "triclustering", pc |-> "while", errobj |-> errobj,
     niters |-> niters,
     row_clusters_init |-> ri, col_clusters_init |-> ci,
     bnd_clusters_init |-> bi,
     row_clusters |-> r, col_clusters |-> c, bnd_clusters |-> b,
     bound |-> TRUE,
     e |-> SeedE(errobj), old_e |-> 0, s |-> 0, converged |-> FALSE]

\* lines 38-47 of the Dask coclustering: R and C are random (kept here by
\* their labels); the names row_clusters and col_clusters are bound only
\* inside the loop
CoclusteringDask(errobj, niters, r, c) ==
    [kind |-> "coclustering", pc |-> "while", errobj |-> errobj,
     niters |-> niters,
     row_clusters_init |-> None, col_clusters_init |-> None,
     bnd_clusters_init |-> None,
     row_clusters |-> r, col_clusters |-> c, bnd_clusters |-> <<>>,
     bound |-> FALSE,
     e |-> SeedE(errobj), old_e |-> 0, s |-> 0, converged |-> FALSE]

\* the loop test; on leaving the loop the function returns its locals
OptWhile ==
    /\ opt.pc = "while"
    /\ opt' = [opt EXCEPT !.pc =
                 IF LoopCond(opt.converged, opt.s, opt.niters)
                 THEN IF IterationInputsOK(opt) THEN "row" ELSE "raised"
                 ELSE IF opt.bound THEN "done" ELSE "raised"]
    /\ UNCHANGED <<ovars, geo, it, km, blk, fp, mem>>

\* row_clusters = np.argmin(d_row, axis=1)
OptRow ==
    /\ opt.pc = "row"
    /\ \E d \in Distances(ZRows) :
         opt' = [opt EXCEPT !.row_clusters = ArgMin(d), !.pc = "col"]
    /\ UNCHANGED <<ovars, geo, it, km, blk, fp, mem>>

\* the end of an iteration: the error is the sum of the minimal distances
\* of the axis assigned last
EndIteration(o, d) ==
    [o EXCEPT !.old_e = o.e,
              !.e = SumSeq(MinVals(d)),
              !.converged = Converged(SumSeq(MinVals(d)), o.e, o.errobj),
              !.s = o.s + 1,
              !.bound = TRUE,
              !.pc = "while"]

\* col_clusters = np.argmin(d_col, axis=1); the last axis of a coclustering
OptCol ==
    /\ opt.pc = "col"
    /\ \E d \in Distances(ZCols) :
         opt' = IF opt.kind = "coclustering"
                THEN EndIteration([opt EXCEPT !.col_clusters = ArgMin(d)], d)
                ELSE [opt EXCEPT !.col_clusters = ArgMin(d), !.pc = "bnd"]
    /\ UNCHANGED <<ovars, geo, it, km, blk, fp, mem>>

\* bnd_clusters = np.argmin(d_bnd, axis=1); the last axis of a triclustering
OptBnd ==
    /\ opt.pc = "bnd"
    /\ \E d \in Distances(ZBnds) :
         opt' = EndIteration([opt EXCEPT !.bnd_clusters = ArgMin(d)], d)
    /\ UNCHANGED <<ovars, geo, it, km, blk, fp, mem>>

(***************************************************************************)
(* The body of one iteration, in detail.  The cluster occupation matrices  *)
(* R, C, B (np.eye(n_clusters)[labels]) are kept by the label array they   *)
(* were built from.  triclustering builds the three of them at the head    *)
(* of the iteration (lines 77-79) and does not touch them again in the     *)
(* iteration; the Dask coclustering builds R and C before the loop and     *)
(* rebuilds each right after its axis is reassigned (lines 58, 64).        *)
(***************************************************************************)
MaxBody == 1        \* number of iterations whose body is followed in detail

IterIdle ==
    [kind |-> "none", pc |-> "idle", s |-> 0,
     row_clusters |-> <<>>, col_clusters |-> <<>>, bnd_clusters |-> <<>>,
     R |-> <<>>, C |-> <<>>, B |-> <<>>,
     d_row |-> <<>>, d_col |-> <<>>, d_bnd |-> <<>>,
     e |-> 0, old_e |-> 0]

\* triclustering at its first loop test: lines 49-59
TriclusteringBody(errobj, r, c, b) ==
    [IterIdle EXCEPT !.kind = "triclustering", !.pc = "head",
                     !.row_clusters = r, !.col_clusters = c,
                     !.bnd_clusters = b, !.e = SeedE(errobj)]

\* the Dask coclustering at its first loop test: lines 38-47.  The labels
\* behind R and C are also kept as the row and column partition in force.
CoclusteringBody(errobj, r, c) ==
    [IterIdle EXCEPT !.kind = "coclustering", !.pc = "head",
                     !.row_clusters = r, !.col_clusters = c,
                     !.R = r, !.C = c, !.e = SeedE(errobj)]

\* lines 77-79
SetupClusterMatrices(o) ==
    IF o.kind = "triclustering"
    THEN [o EXCEPT !.R = o.row_clusters, !.C = o.col_clusters,
                   !.B = o.bnd_clusters]
    ELSE o

\* the partitions the block averages are unpacked onto before the distance
\* of an axis is taken: avg_unpck of lines 90-91 (B, C), 98-99 (B, R) and
\* 106-107 (R, C); da.dot(C, CoCavg.T) and da.dot(R, CoCavg) in the Dask
\* coclustering
RowUnpack(o) == [col |-> o.C, bnd |-> o.B]

ColUnpack(o) == [row |-> o.R, bnd |-> o.B]

BndUnpack(o) == [row |-> o.R, col |-> o.C]

\* _distance(Z, avg_unpck, epsilon): one row per position of the axis, one
\* column per candidate cluster; the data being arbitrary, so is the matrix
Distance(n_el, avg_unpck) == Distances(n_el)

\* the head of the loop body: counts, cluster matrices, block averages
IterSetup ==
    /\ it.pc = "head"
    /\ it.s < MaxBody
    /\ it' = [SetupClusterMatrices(it) EXCEPT !.pc = "row"]
    /\ UNCHANGED <<ovars, geo, opt, km, blk, fp, mem>>

\* d_row and row_clusters = np.argmin(d_row, axis=1)
IterRow ==
    /\ it.pc = "row"
    /\ \E d \in Distance(ZRows, RowUnpack(it)) :
         it' = [it EXCEPT !.d_row = d,
                          !.row_clusters = ArgMin(d),
                          !.R = IF it.kind = "coclustering"
                                THEN ArgMin(d) ELSE @,
                          !.pc = "col"]
    /\ UNCHANGED <<ovars, geo, opt, km, blk, fp, mem>>

\* d_col and col_clusters = np.argmin(d_col, axis=1)
IterCol ==
    /\ it.pc = "col"
    /\ \E d \in Distance(ZCols, ColUnpack(it)) :
         it' = [it EXCEPT !.d_col = d,
                          !.col_clusters = ArgMin(d),
                          !.C = IF it.kind = "coclustering"
                                THEN ArgMin(d) ELSE @,
                          !.pc = IF it.kind = "coclustering"
                                 THEN "error" ELSE "bnd"]
    /\ UNCHANGED <<ovars, geo, opt, km, blk, fp, mem>>

\* d_bnd and bnd_clusters = np.argmin(d_bnd, axis=1)
IterBnd ==
    /\ it.pc = "bnd"
    /\ \E d \in Distance(ZBnds, BndUnpack(it)) :
         it' = [it EXCEPT !.d_bnd = d,
                          !.bnd_clusters = ArgMin(d),
                          !.pc = "error"]
    /\ UNCHANGED <<ovars, geo, opt, km, blk, fp, mem>>

\* old_e = e; minvals = np.min(d_bnd, axis=1); e = np.sum(minvals)
\* (d_col in the Dask coclustering)
ErrorOf(o) ==
    SumSeq(MinVals(IF o.kind = "triclustering" THEN o.d_bnd ELSE o.d_col))

IterError ==
    /\ it.pc = "error"
    /\ it' = [it EXCEPT !.old_e = it.e, !.e = ErrorOf(it),
                        !.s = it.s + 1, !.pc = "head"]
    /\ UNCHANGED <<ovars, geo, opt, km, blk, fp, mem>>

(***************************************************************************)
(* The k-means refinement, cgc.kmeans.Kmeans, on a 2-D array Z of shape    *)
(* (ZRows, ZCols).  A block is a pair <<i, j>> of a row cluster and a      *)
(* column cluster, 0-based as in the code; a grid is an array of the shape *)
(* of nclusters, kept as a function of the blocks; NaN is the empty        *)
(* sequence, a label l in a grid is <<l>> and an average is kept exactly   *)
(* as <<sum, number of elements>>.                                         *)
(* sklearn's KMeans and silhouette_score are outside the package: KMeans   *)
(* yields any assignment of the rows to labels below k (it raises when     *)
(* there are fewer rows than k), silhouette_score yields any score (it     *)
(* raises unless the number of distinct labels is between 2 and the        *)
(* number of rows minus 1).                                                *)
(***************************************************************************)
MaxLabel == 1       \* a label of the supplied clusters ranges over 0..MaxLabel
MaxNcl == 3         \* an entry of nclusters ranges over 1..MaxNcl
MaxK == 3           \* a value of k_range ranges over 1..MaxK
MaxKs == 2          \* k_range holds at most MaxKs values
MaxZ == 1           \* an element of Z ranges over 0..MaxZ
MaxScore == 1       \* a silhouette score ranges over 0..MaxScore

NaN == <<>>

KmShape == <<ZRows, ZCols>>

\* the data: the arrays Z[i][j] = (a*i + b*j) mod (MaxZ + 1)
KmData ==
    {[i \in 1..ZRows |-> [j \in 1..ZCols |->
        (a * i + b * j) % (MaxZ + 1)]] : a, b \in 0..MaxZ}

LabelArrays(n_el) == [1..n_el -> 0..MaxLabel]

\* the clusters argument: one label array per axis of Z; or one array
\* only; or a column array of the wrong length
ClustersArgs ==
    {<<r, c>> : r \in LabelArrays(ZRows), c \in LabelArrays(ZCols)}
      \cup {<<r>> : r \in LabelArrays(ZRows)}
      \cup {<<r, c>> : r \in LabelArrays(ZRows), c \in LabelArrays(ZRows)}

NclustersArgs == [1..2 -> 1..MaxNcl]

RECURSIVE SeqsUpTo(_, _)
SeqsUpTo(S, n) ==
    IF n = 0 THEN {<<>>}
    ELSE SeqsUpTo(S, n - 1)
           \cup {Append(q, x) : q \in SeqsUpTo(S, n - 1), x \in S}

\* the k_range argument: None, or values in any order
KRangeArgs == {None} \cup {Some(q) : q \in SeqsUpTo(1..MaxK, MaxKs)}

Range(q) == {q[p] : p \in DOMAIN q}

Max(S) == CHOOSE x \in S : \A y \in S : y <= x

RECURSIVE Prod(_)
Prod(q) == IF q = <<>> THEN 1 ELSE Head(q) * Prod(Tail(q))

RECURSIVE SumFn(_, _)
SumFn(f, S) ==
    IF S = {} THEN 0
    ELSE LET x == CHOOSE y \in S : TRUE IN f[x] + SumFn(f, S \ {x})

\* faulty variant: the list is left in the order given
Unsorted(q) == q

\* list.sort(): ascending
RECURSIVE Sort(_)
Sort(q) ==
    IF q = <<>> THEN <<>>
    ELSE LET p == CHOOSE i \in DOMAIN q : \A j \in DOMAIN q : q[i] <= q[j]
         IN  <<q[p]>> \o Sort(SubSeq(q, 1, p - 1) \o SubSeq(q, p + 1, Len(q)))

\* list(range(2, int(max_k * max_k_ratio))) with max_k_ratio = 0.8
DefaultKRange(max_k) ==
    [p \in 1..(IF (max_k * 8) \div 10 > 2 THEN (max_k * 8) \div 10 - 2 ELSE 0)
       |-> p + 1]

\* lines 90-95
KRangeOf(k_range, max_k) ==
    Sort(IF k_range = None THEN DefaultKRange(max_k) ELSE k_range[1])

KmeansResults ==
    [k_value |-> None, labels |-> None, measure_list |-> None,
     cluster_averages |-> None]

\* line 104: Z.ndim != len(clusters)
NdimMatches(clusters) == Len(KmShape) = Len(clusters)

\* line 108: Z.shape != tuple(len(cl) for cl in clusters)
ShapeMatches(clusters) ==
    KmShape = [a \in DOMAIN clusters |-> Len(clusters[a])]

\* faulty variant: a label equal to the number of clusters is let through
LabelsBelowOrEqual(cl, ncl) == Max(Range(cl)) <= ncl

\* line 116: max(cl) < ncl
LabelsBelow(cl, ncl) == Max(Range(cl)) < ncl

\* lines 115-120: zip(clusters, nclusters, range(Z.ndim))
AllLabelsBelow(clusters, nclusters) ==
    \A a \in (DOMAIN clusters) \cap (DOMAIN nclusters) \cap (1..Len(KmShape)) :
      LabelsBelow(clusters[a], nclusters[a])

\* line 123: min(self.k_range) >= 2; min() of an empty list raises
\* ValueError as well
MinKOK(k_range) == k_range # <<>> /\ \A p \in DOMAIN k_range : k_range[p] >= 2

\* lines 127-128: max_k_input > max_k, with max_k = np.prod(self.nclusters)
MaxKOK(k_range, max_k) == Max(Range(k_range)) <= max_k

KmNew ==
    [pc |-> "new", error |-> None, Z |-> None, clusters |-> <<>>,
     nclusters |-> <<>>, k_range_arg |-> None, k_range |-> <<>>,
     kmean_labels |-> <<>>, results |-> KmeansResults]

\* Kmeans.__init__
KmeansConstruct ==
    /\ km.pc = "new"
    /\ \E Z \in KmData, clusters \in ClustersArgs,
          nclusters \in NclustersArgs, k_range \in KRangeArgs :
         LET max_k == Prod(nclusters)
             sorted == KRangeOf(k_range, max_k)
             ok == /\ NdimMatches(clusters)
                   /\ ShapeMatches(clusters)
                   /\ AllLabelsBelow(clusters, nclusters)
                   /\ MinKOK(sorted)
                   /\ MaxKOK(sorted, max_k)
         IN  km' = [km EXCEPT !.pc = IF ok THEN "ok" ELSE "raised",
                              !.error = IF ok THEN None
                                        ELSE Some("ValueError"),
                              !.Z = IF ok THEN Some(Z) ELSE None,
                              !.clusters = clusters,
                              !.nclusters = nclusters,
                              !.k_range_arg = k_range,
                              !.k_range = sorted]
    /\ UNCHANGED <<ovars, geo, opt, it, blk, fp, mem>>

\* the cells of an array of shape nclusters, and their C (row-major) order
Blocks(nclusters) == (0..(nclusters[1] - 1)) \X (0..(nclusters[2] - 1))

COrder(nclusters) ==
    [t \in 1..(nclusters[1] * nclusters[2]) |->
       <<(t - 1) \div nclusters[2], (t - 1) % nclusters[2]>>]

\* np.where(self.clusters[i] == cluster[i]) for the two axes, meshed
BlockElements(clusters, b) ==
    {el \in (1..Len(clusters[1])) \X (1..Len(clusters[2])) :
       clusters[1][el[1]] = b[1] /\ clusters[2][el[2]] = b[2]}

\* calculate_cluster_feature (cgc.utils): a feature of a block is NaN when
\* no element of Z belongs to the block
FeatureIsNaN(clusters, b) == BlockElements(clusters, b) = {}

\* line 238: features[~np.isnan(features)].reshape((-1, 6)) keeps the rows
\* of the blocks with features, in C order
StatMeasureBlocks(clusters, nclusters) ==
    SelectSeq(COrder(nclusters), LAMBDA b : ~FeatureIsNaN(clusters, b))

\* np.unique(cl)
Unique(cl) == Range(cl)

\* lines 174-177: the mask is True on the mesh of the labels in use
Mask(clusters, nclusters) ==
    {b \in Blocks(nclusters) :
       b[1] \in Unique(clusters[1]) /\ b[2] \in Unique(clusters[2])}

\* faulty variant: the True cells taken in column-major order
MaskedBlocksColumnMajor(clusters, nclusters) ==
    SelectSeq([t \in 1..(nclusters[1] * nclusters[2]) |->
                 <<(t - 1) % nclusters[1], (t - 1) \div nclusters[1]>>],
              LAMBDA b : b \in Mask(clusters, nclusters))

\* line 181: km_labels[mask] = labels fills the True cells in C order
MaskedBlocks(clusters, nclusters) ==
    SelectSeq(COrder(nclusters), LAMBDA b : b \in Mask(clusters, nclusters))

\* np.argmax: the first index holding the maximum
ArgMaxFirst(q) ==
    Min({p \in DOMAIN q : \A p2 \in DOMAIN q : q[p2] <= q[p]})

\* KMeans(n_clusters=k).fit(X).labels_ followed by silhouette_score(X,
\* labels_), for X of n rows: the label arrays for which neither raises
FitLabels(n, k) ==
    IF n < k THEN {}
    ELSE {l \in [1..n -> 0..(k - 1)] :
            Cardinality(Range(l)) \in 2..(n - 1)}

\* what the loop over k_range and the choice of idx_k can yield: an
\* exception of the library, or the scores of all k and the labels of the
\* selected one
FitOutcomes(n, k_range) ==
    {[ok |-> FALSE, scores |-> <<>>, labels |-> <<>>]}
      \cup
    {[ok |-> TRUE, scores |-> sc, labels |-> l] :
       sc \in IF \A p \in DOMAIN k_range : FitLabels(n, k_range[p]) # {}
              THEN [DOMAIN k_range -> 0..MaxScore] ELSE {},
       l \in UNION {FitLabels(n, k_range[p]) : p \in DOMAIN k_range}}

\* lines 180-181
KmLabels(clusters, nclusters, labels) ==
    LET masked == MaskedBlocks(clusters, nclusters)
    IN  [b \in Blocks(nclusters) |->
           IF \E t \in DOMAIN masked : masked[t] = b
           THEN Some(labels[CHOOSE t \in DOMAIN masked : masked[t] = b])
           ELSE NaN]

\* np.where(km_labels == label)
BlocksOfLabel(km_labels, label) ==
    {b \in DOMAIN km_labels : km_labels[b] = Some(label)}

\* label_sum += self.Z[tuple(idx)].sum() over the blocks of the label
GroupSum(Z, clusters, blocks) ==
    SumFn([b \in blocks |->
             SumFn([el \in BlockElements(clusters, b) |-> Z[el[1]][el[2]]],
                   BlockElements(clusters, b))],
          blocks)

\* faulty variant: the blocks are counted, not their elements
GroupBlocks(clusters, blocks) == Cardinality(blocks)

\* label_n_elements += np.prod([len(idx_x) for idx_x in idx])
GroupElements(clusters, blocks) ==
    SumFn([b \in blocks |->
             Cardinality({i \in DOMAIN clusters[1] : clusters[1][i] = b[1]})
               * Cardinality({j \in DOMAIN clusters[2] : clusters[2][j] = b[2]})],
          blocks)

\* lines 185-197; label_sum / label_n_elements
ClusterAverages(Z, clusters, nclusters, km_labels, k_value) ==
    [b \in Blocks(nclusters) |->
       IF km_labels[b] = NaN \/ km_labels[b][1] >= k_value THEN NaN
       ELSE LET blocks == BlocksOfLabel(km_labels, km_labels[b][1])
            IN  <<GroupSum(Z, clusters, blocks),
                  GroupElements(clusters, blocks)>>]

\* Kmeans.compute
KmeansCompute ==
    /\ km.pc = "ok"
    /\ LET n == Len(StatMeasureBlocks(km.clusters, km.nclusters))
       IN \E fit \in FitOutcomes(n, km.k_range) :
            IF ~fit.ok
            THEN km' = [km EXCEPT !.pc = "raised",
                                  !.error = Some("ValueError")]
            ELSE
              LET idx_k == ArgMaxFirst(fit.scores)
                  k_value == km.k_range[idx_k]
                  masked == MaskedBlocks(km.clusters, km.nclusters)
                  km_labels == KmLabels(km.clusters, km.nclusters, fit.labels)
                  chosen == [km.results EXCEPT !.measure_list = Some(fit.scores),
                                               !.k_value = Some(k_value)]
              IN  /\ fit.labels \in FitLabels(n, k_value)
                  /\ km' =
                       IF Len(fit.labels) # Len(masked)
                       THEN [km EXCEPT !.pc = "raised",
                                       !.error = Some("ValueError"),
                                       !.kmean_labels = fit.labels,
                                       !.results = chosen]
                       ELSE IF \E label \in 0..(k_value - 1) :
                                 BlocksOfLabel(km_labels, label) = {}
                       THEN [km EXCEPT !.pc = "raised",
                                       !.error = Some("ZeroDivisionError"),
                                       !.kmean_labels = fit.labels,
                                       !.results =
                                          [chosen EXCEPT !.labels = Some(km_labels)]]
                       ELSE [km EXCEPT !.pc = "computed",
                                       !.kmean_labels = fit.labels,
                                       !.results =
                                          [chosen EXCEPT
                                             !.labels = Some(km_labels),
                                             !.cluster_averages =
                                               Some(ClusterAverages(
                                                 km.Z[1], km.clusters,
                                                 km.nclusters, km_labels,
                                                 k_value))]]
    /\ UNCHANGED <<ovars, geo, opt, it, blk, fp, mem>>

(***************************************************************************)
(* The block averages.  The head of an iteration computes the average of   *)
(* every block from the data, the partitions in force, the global mean     *)
(* and epsilon: lines 63-87 of triclustering and 51-52 of the Dask         *)
(* coclustering.  The arithmetic is exact: a number is a fraction          *)
(* <<numerator, denominator>> with a positive denominator.  The array of   *)
(* a triclustering is Z[band][row][column] and a block is                  *)
(* <<band cluster, row cluster, column cluster>>; the array of a           *)
(* coclustering is Z[row][column] and a block is <<row cluster, column     *)
(* cluster>>.  The number of clusters is chosen per axis: up to            *)
(* MaxRowClusters for the rows, so that there can be more clusters than    *)
(* rows, and up to NClusters for the columns and the bands.                *)
(***************************************************************************)
MaxRowClusters == 3 \* the number of row clusters ranges over 1..MaxRowClusters
MaxEpsInv == 2      \* epsilon ranges over 1/1 .. 1/MaxEpsInv

Rat(n) == <<n, 1>>

RAdd(x, y) == <<x[1] * y[2] + y[1] * x[2], x[2] * y[2]>>

RMul(x, y) == <<x[1] * y[1], x[2] * y[2]>>

RDiv(x, y) == <<x[1] * y[2], x[2] * y[1]>>

\* equality of two fractions
REq(x, y) == x[1] * y[2] = y[1] * x[2]

\* epsilon: a positive number
Epsilons == {<<1, q>> : q \in 1..MaxEpsInv}

\* the data Z[i][l][m] = (a*i + b*l + c*m) mod (MaxZ + 1) of a
\* triclustering; the 2-D arrays of the refinement for a coclustering
BlkData(kind) ==
    IF kind = "triclustering"
    THEN {[i \in 1..ZBnds |-> [l \in 1..ZRows |-> [m \in 1..ZCols |->
            (a * i + b * l + c * m) % (MaxZ + 1)]]] : a, b, c \in 0..MaxZ}
    ELSE KmData

\* the index tuples of the elements of Z
Elements(kind) ==
    IF kind = "triclustering"
    THEN (1..ZBnds) \X (1..ZRows) \X (1..ZCols)
    ELSE (1..ZRows) \X (1..ZCols)

At(kind, Z, el) ==
    IF kind = "triclustering" THEN Z[el[1]][el[2]][el[3]] ELSE Z[el[1]][el[2]]

\* Z.mean()
Mean(kind, Z) ==
    <<SumFn([el \in Elements(kind) |-> At(kind, Z, el)], Elements(kind)),
      Cardinality(Elements(kind))>>

\* faulty variant: i div n_clusters
ClusterIdxDiv(n_el, n_clusters) == [p \in 1..n_el |-> (p - 1) \div n_clusters]

\* np.mod(np.arange(n_el), n_clusters)
ClusterIdx(n_el, n_clusters) == [p \in 1..n_el |-> (p - 1) % n_clusters]

\* np.random.permutation(q): q in any order
Permutation(q) ==
    {[p \in DOMAIN q |-> q[pi[p]]] :
       pi \in {f \in [DOMAIN q -> DOMAIN q] :
                 \A x, y \in DOMAIN q : f[x] = f[y] => x = y}}

\* _initialize_clusters(n_el, n_clusters)
InitializeClustersOf(n_el, n_clusters) ==
    Permutation(ClusterIdx(n_el, n_clusters))

\* np.argmin(d, axis=1) over a matrix of n_el rows and n_clusters columns:
\* any array of labels below n_clusters
Reassigned(n_el, n_clusters) == [1..n_el -> 0..(n_clusters - 1)]

\* _setup_cluster_matrix: np.eye(n_clusters)[cluster_idx]
SetupClusterMatrix(n_clusters, cluster_idx) ==
    [p \in DOMAIN cluster_idx |->
       [c \in 0..(n_clusters - 1) |-> IF cluster_idx[p] = c THEN 1 ELSE 0]]

\* np.bincount(cluster_idx, minlength=n_clusters)
Bincount(cluster_idx, n_clusters) ==
    [c \in 0..(n_clusters - 1) |->
       Cardinality({p \in DOMAIN cluster_idx : cluster_idx[p] = c})]

\* the cells of the block-average tensor
Cells(kind, k) ==
    IF kind = "triclustering"
    THEN (0..(k.bnd - 1)) \X (0..(k.row - 1)) \X (0..(k.col - 1))
    ELSE (0..(k.row - 1)) \X (0..(k.col - 1))

\* lines 64-75: the product of the sizes of the clusters
NelClusters(o) ==
    LET nel_row == Bincount(o.row_clusters, o.k.row)
        nel_col == Bincount(o.col_clusters, o.k.col)
        nel_bnd == Bincount(o.bnd_clusters, o.k.bnd)
    IN  [cell \in Cells("triclustering", o.k) |->
           nel_bnd[cell[1]] * (nel_row[cell[2]] * nel_col[cell[3]])]

\* lines 83-85: the sums, contracted along the band axis, then the row
\* axis, then the column axis
TriCsum(o) ==
    LET R == SetupClusterMatrix(o.k.row, o.row_clusters)
        C == SetupClusterMatrix(o.k.col, o.col_clusters)
        B == SetupClusterMatrix(o.k.bnd, o.bnd_clusters)
        along_bnd == [j \in 0..(o.k.bnd - 1) |-> [l \in 1..ZRows |->
                        [m \in 1..ZCols |->
                           SumFn([i \in 1..ZBnds |-> B[i][j] * o.Z[i][l][m]],
                                 1..ZBnds)]]]
        along_row == [k \in 0..(o.k.bnd - 1) |-> [j \in 0..(o.k.row - 1) |->
                        [m \in 1..ZCols |->
                           SumFn([i \in 1..ZRows |->
                                    R[i][j] * along_bnd[k][i][m]],
                                 1..ZRows)]]]
    IN  [cell \in Cells("triclustering", o.k) |->
           SumFn([i \in 1..ZCols |->
                    C[i][cell[3]] * along_row[cell[1]][cell[2]][i]],
                 1..ZCols)]

\* da.dot(da.dot(R.T, X), C) for X of the shape of Z
RtXC(o, X) ==
    LET R == SetupClusterMatrix(o.k.row, o.row_clusters)
        C == SetupClusterMatrix(o.k.col, o.col_clusters)
        RtX == [i \in 0..(o.k.row - 1) |-> [q \in 1..ZCols |->
                  SumFn([p \in 1..ZRows |-> R[p][i] * X[p][q]], 1..ZRows)]]
    IN  [cell \in Cells("coclustering", o.k) |->
           SumFn([q \in 1..ZCols |-> RtX[cell[1]][q] * C[q][cell[2]]],
                 1..ZCols)]

\* da.ones((m, n))
Ones == [p \in 1..ZRows |-> [q \in 1..ZCols |-> 1]]

\* faulty variant: epsilon alone is added to the sum
BlockAverageNoGavg(sum, nel, Gavg, epsilon) ==
    RDiv(RAdd(Rat(sum), epsilon), RAdd(Rat(nel), epsilon))

\* (sum + Gavg * epsilon) / (nel + epsilon)
BlockAverage(sum, nel, Gavg, epsilon) ==
    RDiv(RAdd(Rat(sum), RMul(Gavg, epsilon)), RAdd(Rat(nel), epsilon))

BlkIdle ==
    [pc |-> "idle", kind |-> "none", Z |-> <<>>, epsilon |-> Rat(1),
     k |-> [row |-> 1, col |-> 1, bnd |-> 1],
     row_clusters |-> <<>>, col_clusters |-> <<>>, bnd_clusters |-> <<>>,
     s |-> 0, Gavg |-> Rat(0), nel_clusters |-> <<>>, TriCavg |-> <<>>]

\* the function is entered and the partitions are initialized: lines 44-59
\* of triclustering, 38-47 of the Dask coclustering
BlkEnter ==
    /\ blk.pc = "idle"
    /\ \E kind \in {"triclustering", "coclustering"},
          epsilon \in Epsilons,
          kr \in 1..MaxRowClusters, kc \in 1..NClusters :
         \E Z \in BlkData(kind),
            kb \in IF kind = "triclustering" THEN 1..NClusters ELSE {1},
            r \in InitializeClustersOf(ZRows, kr),
            c \in InitializeClustersOf(ZCols, kc) :
           \E b \in IF kind = "triclustering"
                    THEN InitializeClustersOf(ZBnds, kb) ELSE {<<>>} :
             blk' = [BlkIdle EXCEPT !.pc = "head", !.kind = kind, !.Z = Z,
                                    !.epsilon = epsilon,
                                    !.k = [row |-> kr, col |-> kc, bnd |-> kb],
                                    !.row_clusters = r, !.col_clusters = c,
                                    !.bnd_clusters = b,
                                    !.Gavg = Mean(kind, Z)]
    /\ UNCHANGED <<ovars, geo, opt, it, km, fp, mem>>

\* the head of an iteration: lines 63-87 of triclustering, 51-52 of the
\* Dask coclustering
BlkAverages ==
    /\ blk.pc = "head"
    /\ LET nel == IF blk.kind = "triclustering" THEN NelClusters(blk)
                  ELSE RtXC(blk, Ones)
           sum == IF blk.kind = "triclustering" THEN TriCsum(blk)
                  ELSE RtXC(blk, blk.Z)
       IN  blk' = [blk EXCEPT
                     !.pc = "averaged",
                     !.nel_clusters = nel,
                     !.TriCavg = [cell \in Cells(blk.kind, blk.k) |->
                                    BlockAverage(sum[cell], nel[cell],
                                                 blk.Gavg, blk.epsilon)]]
    /\ UNCHANGED <<ovars, geo, opt, it, km, fp, mem>>

\* the rest of the iteration: every axis is reassigned by np.argmin
BlkReassign ==
    /\ blk.pc = "averaged"
    /\ blk.s < MaxBody
    /\ \E r \in Reassigned(ZRows, blk.k.row),
          c \in Reassigned(ZCols, blk.k.col) :
         \E b \in IF blk.kind = "triclustering"
                  THEN Reassigned(ZBnds, blk.k.bnd) ELSE {<<>>} :
           blk' = [blk EXCEPT !.pc = "head", !.s = blk.s + 1,
                              !.row_clusters = r, !.col_clusters = c,
                              !.bnd_clusters = b]
    /\ UNCHANGED <<ovars, geo, opt, it, km, fp, mem>>

(***************************************************************************)
(* The optimizer loop over repeated partitions.  The body of an iteration  *)
(* reads Z, Gavg, epsilon and the partitions it starts from, and nothing   *)
(* else (no random number is drawn in it, and e and old_e are read by the  *)
(* convergence test only): an iteration that starts from the partitions    *)
(* the previous one started from recomputes the labels and the error the   *)
(* previous one computed.  fixed records that the last iteration left the  *)
(* partitions as it found them; every other iteration yields any labels    *)
(* and error the distances can give.                                       *)
(***************************************************************************)
\* what one pass through lines 63-116 of triclustering can yield
TriclusteringOutcomes ==
    {[row_clusters |-> ArgMin(d_row), col_clusters |-> ArgMin(d_col),
      bnd_clusters |-> ArgMin(d_bnd), e |-> SumSeq(MinVals(d_bnd))] :
       d_row \in Distances(ZRows), d_col \in Distances(ZCols),
       d_bnd \in Distances(ZBnds)}

\* what one pass through lines 50-70 of the Dask coclustering can yield
CoclusteringOutcomes ==
    {[row_clusters |-> ArgMin(d_row), col_clusters |-> ArgMin(d_col),
      bnd_clusters |-> <<>>, e |-> SumSeq(MinVals(d_col))] :
       d_row \in Distances(ZRows), d_col \in Distances(ZCols)}

Partitions(o) ==
    [row_clusters |-> o.row_clusters, col_clusters |-> o.col_clusters,
     bnd_clusters |-> o.bnd_clusters]

\* the labels and the error of the iteration that starts in o
IterationOutcomes(o) ==
    IF o.fixed
    THEN {[row_clusters |-> o.row_clusters, col_clusters |-> o.col_clusters,
           bnd_clusters |-> o.bnd_clusters, e |-> o.e]}
    ELSE IF o.kind = "triclustering" THEN TriclusteringOutcomes
    ELSE CoclusteringOutcomes

FpIdle ==
    [pc |-> "idle", kind |-> "none", errobj |-> 0, niters |-> 0,
     row_clusters |-> <<>>, col_clusters |-> <<>>, bnd_clusters |-> <<>>,
     e |-> 0, old_e |-> 0, s |-> 0, converged |-> FALSE, fixed |-> FALSE]

\* lines 44-59 of triclustering, 36-47 of the Dask coclustering
FpEnter ==
    /\ fp.pc = "idle"
    /\ \E kind \in {"triclustering", "coclustering"},
          errobj \in 0..MaxThreshold, niters \in 0..MaxIters,
          r \in InitializeClusters(ZRows), c \in InitializeClusters(ZCols) :
         \E b \in IF kind = "triclustering" THEN InitializeClusters(ZBnds)
                  ELSE {<<>>} :
           fp' = [FpIdle EXCEPT !.pc = "while", !.kind = kind,
                                !.errobj = errobj, !.niters = niters,
                                !.row_clusters = r, !.col_clusters = c,
                                !.bnd_clusters = b, !.e = SeedE(errobj)]
    /\ UNCHANGED <<ovars, geo, opt, it, km, blk, mem>>

\* one iteration of the loop
FpIterate ==
    /\ fp.pc = "while"
    /\ LoopCond(fp.converged, fp.s, fp.niters)
    /\ \E out \in IterationOutcomes(fp) :
         fp' = [fp EXCEPT !.row_clusters = out.row_clusters,
                          !.col_clusters = out.col_clusters,
                          !.bnd_clusters = out.bnd_clusters,
                          !.old_e = fp.e,
                          !.e = out.e,
                          !.converged = Converged(out.e, fp.e, fp.errobj),
                          !.s = fp.s + 1,
                          !.fixed = (Partitions(out) = Partitions(fp))]
    /\ UNCHANGED <<ovars, geo, opt, it, km, blk, mem>>

\* the loop is left and the locals are returned; the Dask coclustering
\* has no row_clusters to return when the loop body never ran
FpReturn ==
    /\ fp.pc = "while"
    /\ ~LoopCond(fp.converged, fp.s, fp.niters)
    /\ fp' = [fp EXCEPT !.pc = IF fp.kind = "coclustering" /\ fp.s = 0
                               THEN "raised" ELSE "done"]
    /\ UNCHANGED <<ovars, geo, opt, it, km, blk, mem>>

(***************************************************************************)
(* The arrays of concurrent optimizer runs.  run_with_threads submits      *)
(* every run with the same objects: self.Z and the caller's initial label  *)
(* arrays.  An array is followed by what went into its content: the set    *)
(* of its sources, 0 for the caller and i for the computation of run i.    *)
(* A label name of a run is bound to the caller's initial array ("init")   *)
(* or to an array the run created ("own").                                 *)
(***************************************************************************)
MaxConcurrent == 2  \* number of runs executing at the same time

LabelAxes == <<"row", "col", "bnd">>

CallerArray == [sources |-> {0}]

NoArray == [sources |-> {}]

NoLabels == [row |-> NoArray, col |-> NoArray, bnd |-> NoArray]

QueuedRun ==
    [pc |-> "queued", s |-> 0, converged |-> FALSE,
     bind |-> [row |-> "none", col |-> "none", bnd |-> "none"],
     own |-> NoLabels, TriCavg |-> NoArray, e |-> NoArray]

MemIdle ==
    [pc |-> "idle", niters |-> 0, given |-> {}, Z |-> NoArray,
     init |-> NoLabels, rng |-> 0,
     runs |-> [i \in 1..MaxConcurrent |-> QueuedRun]]

\* the array the name <axis>_clusters of run i is bound to
Bound(m, i, ax) ==
    IF m.runs[i].bind[ax] = "init" THEN m.init[ax] ELSE m.runs[i].own[ax]

\* faulty variant: <axis>_clusters[:] = a, a write into the bound array
AssignInPlace(m, i, ax, a) ==
    IF m.runs[i].bind[ax] = "init"
    THEN [m EXCEPT !.init[ax] = a]
    ELSE [m EXCEPT !.runs[i].own[ax] = a]

\* <axis>_clusters = a: the name is bound to the new array a
AssignName(m, i, ax, a) ==
    [m EXCEPT !.runs[i].own[ax] = a, !.runs[i].bind[ax] = "own"]

\* executor.submit(..., self.Z, ..., row_clusters_init=..., ...) for every
\* run: the same arrays for all of them
MemSubmit ==
    /\ mem.pc = "idle"
    /\ \E niters \in 0..MaxIters, given \in SUBSET {"row", "col", "bnd"} :
         mem' = [MemIdle EXCEPT
                   !.pc = "submitted", !.niters = niters, !.given = given,
                   !.Z = CallerArray,
                   !.init = [row |-> IF "row" \in given THEN CallerArray
                                     ELSE NoArray,
                             col |-> IF "col" \in given THEN CallerArray
                                     ELSE NoArray,
                             bnd |-> IF "bnd" \in given THEN CallerArray
                                     ELSE NoArray]]
    /\ UNCHANGED <<ovars, geo, opt, it, km, blk, fp>>

\* lines 44-59: a given initial array is bound as it is, a missing one is
\* drawn from numpy's global generator
MemEnter(i) ==
    /\ mem.pc = "submitted"
    /\ mem.runs[i].pc = "queued"
    /\ LET drawn == {"row", "col", "bnd"} \ mem.given
           arr(ax) == IF ax \in drawn THEN [sources |-> {i}] ELSE NoArray
           nm(ax) == IF ax \in drawn THEN "own" ELSE "init"
       IN mem' = [mem EXCEPT
                    !.rng = @ + Cardinality(drawn),
                    !.runs[i].pc = "while",
                    !.runs[i].own =
                        [row |-> arr("row"), col |-> arr("col"),
                         bnd |-> arr("bnd")],
                    !.runs[i].bind =
                        [row |-> nm("row"), col |-> nm("col"),
                         bnd |-> nm("bnd")]]
    /\ UNCHANGED <<ovars, geo, opt, it, km, blk, fp>>

\* lines 61-87: the block averages, a new array computed from Z and the
\* three label arrays
MemAverages(i) ==
    /\ mem.pc = "submitted"
    /\ mem.runs[i].pc = "while"
    /\ LoopCond(mem.runs[i].converged, mem.runs[i].s, mem.niters)
    /\ mem' = [mem EXCEPT
                 !.runs[i].pc = "row",
                 !.runs[i].TriCavg =
                     [sources |-> {i} \cup mem.Z.sources
                                  \cup Bound(mem, i, "row").sources
                                  \cup Bound(mem, i, "col").sources
                                  \cup Bound(mem, i, "bnd").sources]]
    /\ UNCHANGED <<ovars, geo, opt, it, km, blk, fp>>

\* lines 89-95, 97-103, 105-116: the distances are computed from Z, the
\* block averages and the cluster matrices of lines 77-79 (whose sources
\* the block averages have), and the label name is assigned their argmin;
\* after the last axis the error and the convergence test (lines 112-120)
MemAssign(i) ==
    /\ mem.pc = "submitted"
    /\ mem.runs[i].pc \in {"row", "col", "bnd"}
    /\ LET ax == mem.runs[i].pc
           a == [sources |-> {i} \cup mem.Z.sources
                              \cup mem.runs[i].TriCavg.sources]
           m == AssignName(mem, i, ax, a)
       IN IF ax = "bnd"
          THEN \E converged \in BOOLEAN :
                 mem' = [m EXCEPT !.runs[i].pc = "while",
                                  !.runs[i].e = a,
                                  !.runs[i].converged = converged,
                                  !.runs[i].s = @ + 1]
          ELSE mem' = [m EXCEPT !.runs[i].pc =
                                    IF ax = "row" THEN "col" ELSE "bnd"]
    /\ UNCHANGED <<ovars, geo, opt, it, km, blk, fp>>

\* line 125: the arrays the label names are bound to are returned
MemReturn(i) ==
    /\ mem.pc = "submitted"
    /\ mem.runs[i].pc = "while"
    /\ ~LoopCond(mem.runs[i].converged, mem.runs[i].s, mem.niters)
    /\ mem' = [mem EXCEPT !.runs[i].pc = "done"]
    /\ UNCHANGED <<ovars, geo, opt, it, km, blk, fp>>

NoCall == [method |-> "none", low_memory |-> FALSE, workers |-> 1]

NoSelf == [nruns |-> 0, row_clusters_init |-> None, col_clusters_init |-> None]

GeoIdle ==
    [row_clusters |-> None, col_clusters |-> None, error |-> None,
     row_min |-> None, col_min |-> None, e_min |-> 0]

Init ==
    /\ ctor = "new"
    /\ self = NoSelf
    /\ results = CoclusteringResults
    /\ heap = [r \in Refs |-> Unallocated]
    /\ ret = None
    /\ call = NoCall
    /\ pc = "idle"
    /\ futures = <<>>
    /\ session = 0
    /\ nwrites = 0
    /\ disk = None
    /\ ncaller = 0
    /\ dist = NoScatter
    /\ geo = GeoIdle
    /\ opt = OptIdle
    /\ it = IterIdle
    /\ km = KmNew
    /\ blk = BlkIdle
    /\ fp = FpIdle
    /\ mem = MemIdle

Next ==
    \/ Construct
    \/ Enter
    \/ Submit
    \/ Start
    \/ CallRun
    \/ Finish
    \/ Consume
    \/ Unwind
    \/ Return
    \/ CallerWrites
    \/ CallerRebinds

Spec == Init /\ [][Next]_vars

InitGeo ==
    /\ ctor = "ok"
    /\ self \in [nruns : 1..MaxRuns, row_clusters_init : {None},
                 col_clusters_init : {None}]
    /\ results = CoclusteringResults
    /\ heap = [r \in Refs |-> Unallocated]
    /\ ret = None
    /\ call = NoCall
    /\ pc = "idle"
    /\ futures = <<>>
    /\ session = 0
    /\ nwrites = 0
    /\ disk = None
    /\ ncaller = 0
    /\ dist = NoScatter
    /\ geo = GeoIdle
    /\ opt = OptIdle
    /\ it = IterIdle
    /\ km = KmNew
    /\ blk = BlkIdle
    /\ fp = FpIdle
    /\ mem = MemIdle

NextGeo ==
    \/ GeoEnter
    \/ Submit
    \/ Start
    \/ CallRun
    \/ Finish
    \/ GeoConsume
    \/ Unwind
    \/ GeoStore

SpecGeo == InitGeo /\ [][NextGeo]_vars

(***************************************************************************)
(* Properties of the orchestrators.                                        *)
(***************************************************************************)
RunErrors == {futures[i].e : i \in 1..NRuns}

\* the step consumes the result of run i of the current call
Consumes(i) ==
    /\ session' = session
    /\ i \in 1..NRuns
    /\ futures[i].st = "finished"
    /\ futures'[i].st = "consumed"
    /\ ~futures[i].failed

\* C1: after the first call on an orchestrator has consumed its N >= 1
\* runs (in whatever order they completed), results.error is the minimum
\* of the N errors and results.row_clusters / col_clusters are the arrays
\* returned by one run whose error is that minimum.
C1_BestOfN ==
    (session = 1 /\ pc = "returned" /\ NRuns >= 1) =>
        /\ results.error = Some(Min(RunErrors))
        /\ \E i \in 1..NRuns :
             /\ futures[i].e = results.error[1]
             /\ results.row_clusters = <<session, i, "row">>
             /\ results.col_clusters = <<session, i, "col">>

C1_Witness ==
    /\ session = 1 /\ pc = "returned" /\ NRuns = 2
    /\ futures[2].e < futures[1].e
    /\ results.error = Some(futures[2].e)
    /\ results.row_clusters = <<1, 2, "row">>

\* C2: after a call of geoclustering's Coclustering has consumed its
\* N >= 1 runs, self.error is the minimum of the runs' errors and
\* self.row_clusters / col_clusters are the labels of a run with that
\* error, whatever the errors are (all of them >= 0 included).
C2_GeoBestOfN ==
    (pc \in {"returned", "raised"} /\ NRuns >= 1 /\ AllConsumed
       /\ \A i \in 1..NRuns : ~futures[i].failed) =>
        /\ pc = "returned"
        /\ geo.error = Some(Min(RunErrors))
        /\ \E i \in 1..NRuns :
             /\ futures[i].e = geo.error[1]
             /\ geo.row_clusters = LabelsOf(session, i, "row")
             /\ geo.col_clusters = LabelsOf(session, i, "col")

C3_Step ==
    /\ \A i \in 1..NRuns :
         Consumes(i) =>
           /\ results'.nruns_completed = results.nruns_completed + 1
           /\ results'.nruns_converged =
                results.nruns_converged + (IF futures[i].converged THEN 1 ELSE 0)
    /\ ((\A i \in 1..NRuns : ~Consumes(i)) /\ ctor = "ok") =>
           /\ results'.nruns_completed = results.nruns_completed
           /\ results'.nruns_converged = results.nruns_converged

C3_Final ==
    (session = 1 /\ pc = "returned") =>
        /\ results.nruns_completed = self.nruns
        /\ results.nruns_converged =
             Cardinality({i \in 1..NRuns : futures[i].converged})

\* C3: in the first call on an orchestrator, every consumed result adds
\* exactly one to nruns_completed, and one to nruns_converged exactly when
\* the run converged; no other step of a call changes the counters; and
\* when the call returns nruns_completed = nruns and nruns_converged is
\* the number of converged runs.
C3_Counters == [][C3_Step]_vars /\ []C3_Final

C3_Witness ==
    /\ session = 1 /\ pc = "returned" /\ NRuns = 2
    /\ futures[1].converged /\ ~futures[2].converged
    /\ results.nruns_completed = 2 /\ results.nruns_converged = 1

C4_Step ==
    /\ \A i \in 1..NRuns :
         Consumes(i) =>
           IF results.error = None \/ futures[i].e < results.error[1]
           THEN /\ nwrites' = nwrites + 1
                /\ disk' = Some(Snapshot(results', heap'))
           ELSE /\ nwrites' = nwrites
                /\ disk' = disk
    /\ (pc # "returned" /\ pc' = "returned") =>
           /\ AllConsumed
           /\ nwrites' = nwrites + 1
           /\ disk' = Some(Snapshot(results', heap'))
           /\ results' = results
    /\ ((\A i \in 1..NRuns : ~Consumes(i)) /\ pc' # "returned"
          /\ session' = session) =>
           /\ nwrites' = nwrites
           /\ disk' = disk

C4_Count == pc = "returned" => nwrites \in 1..(NRuns + 1)

\* C4: a consumed result is followed at once by a write exactly when its
\* error is strictly lower than the best so far or there is no best yet;
\* the step that ends the call writes exactly once more, whatever the last
\* result was; no other step writes; and every write persists the state
\* the results have at that moment, so that a call that returns has
\* written between 1 and N + 1 times.
C4_Writes == [][C4_Step]_vars /\ []C4_Count

C4_Witness ==
    /\ session = 1 /\ pc = "returned" /\ NRuns = 2 /\ nwrites = 2
    /\ disk = Some(Snapshot(results, heap))

\* C5 as claimed: an orchestrator whose row or column initial partition is
\* supplied is never constructed with nruns # 1.
C5_AnyInitNeedsOneRun ==
    (self.row_clusters_init # None \/ self.col_clusters_init # None)
      /\ self.nruns # 1
    => ctor # "ok" /\ session = 0

\* C5 as amended: an orchestrator with BOTH the row and the column initial
\* partition supplied and nruns # 1 fails at construction, and no run is
\* ever submitted for it.
C5_BothInitsNeedOneRun ==
    (self.row_clusters_init # None /\ self.col_clusters_init # None)
      /\ self.nruns # 1
    => ctor # "ok" /\ session = 0 /\ futures = <<>>

C5_Witness ==
    /\ self.row_clusters_init # None /\ self.col_clusters_init # None
    /\ Len(self.row_clusters_init) = ZRows
    /\ Len(self.col_clusters_init) = ZCols
    /\ self.nruns = 2
    /\ ctor = "raised"

C6_Step ==
    /\ (ncaller' # ncaller) =>
           Snapshot(results', heap') = Snapshot(results, heap)
    /\ (ncaller' = ncaller /\ ret # None /\ ret' = ret) =>
           Snapshot(ret'[1], heap') = Snapshot(ret[1], heap)

\* C6: the returned object is an isolated snapshot: nothing a caller does
\* to it changes what the orchestrator's results hold, and nothing the
\* orchestrator does later changes what the returned object holds.
C6_Isolated == [][C6_Step]_vars

\* C7 as claimed: with low_memory = TRUE at most one run is in progress,
\* in run_with_dask and in run_with_threads; otherwise every run is
\* submitted before the first result is consumed.
C7_LowMemoryIsSequential ==
    /\ call.low_memory => Count("running") <= 1
    /\ (~call.low_memory /\ Count("consumed") > 0) => AllSubmitted

\* C7 as amended: run_with_dask(low_memory=True) has at most one run in
\* progress and starts run i+1 only after the result of run i was taken;
\* run_with_threads has at most nthreads runs in progress whatever
\* low_memory is; and run_with_threads and run_with_dask(low_memory=False)
\* submit every run before the first result is consumed.
C7_DaskLowMemoryIsSequential ==
    /\ Sequential(call) =>
         /\ Count("running") <= 1
         /\ Count("pending") = 0
         /\ \A i \in 2..NRuns :
              Submitted(i) => futures[i - 1].st = "consumed"
    /\ ~Sequential(call) =>
         /\ Count("running") <= call.workers
         /\ Count("consumed") > 0 => AllSubmitted

C7_Witness ==
    /\ Sequential(call) /\ NRuns = 2
    /\ futures[1].st = "consumed" /\ futures[2].st = "running"

\* the runs of the current call that did not raise
NonFailed == {i \in 1..NRuns : futures[i].st \in {"finished", "consumed"}
                                 /\ ~futures[i].failed}

\* C11: when one of the runs of the first call fails, the call still ends
\* normally: results.error is the minimum error of the runs that did not
\* fail, nruns_completed is the number of those runs, and the final
\* snapshot has been written.
C11_FailureTolerated ==
    (session = 1 /\ pc \in {"returned", "raised"}
       /\ \E i \in 1..NRuns : futures[i].failed
       /\ NonFailed # {}) =>
        /\ pc = "returned"
        /\ results.error = Some(Min({futures[i].e : i \in NonFailed}))
        /\ results.nruns_completed = Cardinality(NonFailed)
        /\ nwrites >= 1
        /\ disk = Some(Snapshot(results, heap))

\* C12: a run that did not converge is no error for the orchestrator: its
\* result is consumed without raising, and when its error is strictly
\* lower than the best so far (or there is no best yet) it becomes the
\* best, labels and error, exactly as a converged run's would, while
\* nruns_converged stays as it was.
C12_Step ==
    \A i \in 1..NRuns :
      (Consumes(i) /\ ~futures[i].converged) =>
        /\ pc' = pc
        /\ results'.nruns_converged = results.nruns_converged
        /\ IF results.error = None \/ futures[i].e < results.error[1]
           THEN /\ results'.error = Some(futures[i].e)
                /\ results'.row_clusters = <<session, i, "row">>
                /\ results'.col_clusters = <<session, i, "col">>
           ELSE /\ results'.error = results.error
                /\ results'.row_clusters = results.row_clusters
                /\ results'.col_clusters = results.col_clusters

C12_NonConvergedIsEligible == [][C12_Step]_vars

C12_Witness ==
    /\ session = 1 /\ NRuns = 2
    /\ futures[1].st = "consumed" /\ futures[1].converged
    /\ futures[2].st = "consumed" /\ ~futures[2].converged
    /\ futures[2].e < futures[1].e
    /\ results.error = Some(futures[2].e)
    /\ results.row_clusters = <<1, 2, "row">>
    /\ results.nruns_converged = 1

\* the aggregate after the result of run i, computed from the aggregate
\* before and that result alone
C18_After(res, i) ==
    LET improves == res.error = None \/ futures[i].e < res.error[1]
    IN  [row_clusters |-> IF improves THEN <<session, i, "row">>
                          ELSE res.row_clusters,
         col_clusters |-> IF improves THEN <<session, i, "col">>
                          ELSE res.col_clusters,
         error |-> IF improves THEN Some(futures[i].e) ELSE res.error,
         nruns_completed |-> res.nruns_completed + 1,
         nruns_converged |-> res.nruns_converged
                               + (IF futures[i].converged THEN 1 ELSE 0)]

C18_Step ==
    /\ \A i \in 1..NRuns :
         Consumes(i) =>
           /\ results' = C18_After(results, i)
           /\ nwrites' - nwrites = (IF results'.error # results.error
                                    THEN 1 ELSE 0)
           /\ nwrites' # nwrites => disk' = Some(Snapshot(results', heap'))
           /\ nwrites' = nwrites => disk' = disk
           /\ pc' = pc /\ call' = call
    /\ (pc # "returned" /\ pc' = "returned") =>
           /\ results' = results
           /\ nwrites' = nwrites + 1
           /\ disk' = Some(Snapshot(results, heap))
    /\ (session' # session) => results' = results /\ disk' = disk

\* C18: the three backends aggregate alike.  In run_with_threads,
\* run_with_dask(low_memory=True) and run_with_dask(low_memory=False) the
\* step that takes a run's result changes the results, and writes, as a
\* function of the results before and of that run's result alone (never of
\* the backend), entering a call changes neither, and the returning step
\* writes once; so the same results delivered in the same order leave the
\* same aggregate and the same sequence of writes under every backend.
C18_BackendsEquivalent == [][C18_Step]_vars

C18_Witness ==
    /\ session = 1 /\ pc = "returned" /\ NRuns = 2
    /\ call.method = "run_with_dask" /\ ~call.low_memory
    /\ futures[2].e < futures[1].e
    /\ nwrites = 2
    /\ results.row_clusters = <<1, 2, "row">>

\* C24: in a run_with_dask(low_memory=False) call the array has been
\* scattered exactly once from the moment the call is entered, that is
\* before the first run is submitted; the handle is the one of this call;
\* and the Z argument of every run submitted so far is that handle, never
\* the array itself.
C24_ScatteredOnce ==
    (ctor = "ok" /\ session >= 1 /\ Performance(call)) =>
        /\ dist.nscatter = 1
        /\ dist.Z = <<"scattered", session>>
        /\ Len(dist.args) = Cardinality({i \in 1..NRuns : Submitted(i)})
        /\ \A i \in DOMAIN dist.args : dist.args[i] = dist.Z

C24_Witness ==
    /\ Performance(call) /\ NRuns = 2 /\ AllSubmitted
    /\ dist.nscatter = 1
    /\ dist.args = <<dist.Z, dist.Z>>
    /\ dist.Z # TheArray

\* the least of the best so far and a new error
LeastOf(best, e) == IF best = None \/ e < best[1] THEN Some(e) ELSE best

C25_Step ==
    /\ Cardinality({i \in 1..NRuns : Consumes(i)}) <= 1
    /\ (ctor = "ok" /\ results' # results) => \E i \in 1..NRuns : Consumes(i)
    /\ \A i \in 1..NRuns :
         Consumes(i) =>
           /\ results'.error = LeastOf(results.error, futures[i].e)
           /\ results'.nruns_completed = results.nruns_completed + 1

C25_Final ==
    (session = 1 /\ pc = "returned") =>
        /\ results.nruns_completed = NRuns
        /\ \A i \in 1..NRuns : results.error[1] <= futures[i].e
        /\ \E i \in 1..NRuns : results.error = Some(futures[i].e)

\* C25: the aggregate is changed by one thread, one result at a time: a
\* step takes at most one result, the results change only in such a step,
\* and the step leaves the least of the best so far and the new error and
\* one more completed run; so however the runs of the first call start,
\* finish and are taken, when the call returns no result has been lost:
\* nruns_completed is N and the error is the least of the N errors.
C25_NoLostUpdate == [][C25_Step]_vars /\ []C25_Final

C25_Witness ==
    /\ session = 1 /\ pc = "returned" /\ NRuns = 2 /\ call.workers = 2
    /\ futures[2].e < futures[1].e
    /\ results.error = Some(futures[2].e)
    /\ results.nruns_completed = 2
    /\ nwrites = 3

\* C27: on a constructed orchestrator, after any number of run_with_*
\* calls, 0 <= nruns_converged <= nruns_completed <= nruns, and when a
\* call has returned the error is the least error of the runs of that
\* call.
C27_CountersWithinNruns ==
    ctor = "ok" =>
        /\ 0 <= results.nruns_converged
        /\ results.nruns_converged <= results.nruns_completed
        /\ results.nruns_completed <= self.nruns
        /\ (pc = "returned" /\ NRuns >= 1) =>
             results.error = Some(Min(RunErrors))

C28_Step ==
    \A i \in 1..NRuns :
      Consumes(i) =>
        /\ results'.error = LeastOf(results.error, futures[i].e)
        /\ results'.nruns_completed = results.nruns_completed + 1
        /\ results'.nruns_converged =
             results.nruns_converged + (IF futures[i].converged THEN 1 ELSE 0)
        /\ IF results.error # None /\ futures[i].e >= results.error[1]
           THEN /\ results'.row_clusters = results.row_clusters
                /\ results'.col_clusters = results.col_clusters
           ELSE /\ results'.row_clusters = <<session, i, "row">>
                /\ results'.col_clusters = <<session, i, "col">>

C28_Final ==
    (session = 1 /\ pc = "returned" /\ NRuns >= 1) =>
        /\ results.error = Some(Min(RunErrors))
        /\ results.nruns_completed = NRuns
        /\ results.nruns_converged =
             Cardinality({i \in 1..NRuns : futures[i].converged})
        /\ (Cardinality({i \in 1..NRuns : futures[i].e = Min(RunErrors)}) = 1)
             => \A i \in 1..NRuns :
                  futures[i].e = Min(RunErrors) =>
                    /\ results.row_clusters = <<session, i, "row">>
                    /\ results.col_clusters = <<session, i, "col">>

\* C28: whatever the order in which the results of the first call are
\* taken, the call ends with the same error (the least of the N), the same
\* nruns_completed (N) and the same nruns_converged (the number of
\* converged runs): each result folds into the aggregate by a least-of and
\* two additions.  The labels are those of the run with the least error
\* when only one run has it; a result whose error equals the best so far
\* replaces nothing, so of tied runs the one taken first keeps its labels.
C28_OrderIndependent == [][C28_Step]_vars /\ []C28_Final

C28_Witness ==
    /\ session = 1 /\ pc = "returned" /\ NRuns = 2
    /\ futures[1].e = futures[2].e
    /\ results.error = Some(futures[1].e)
    /\ results.row_clusters = <<1, 2, "row">>
    /\ results.col_clusters = <<1, 2, "col">>
    /\ nwrites = 2

\* the labels and the error of an aggregate are those of one run: none
\* of them is set before the first result, and afterwards the two label
\* arrays are the ones returned by the same run i of the same call s,
\* whose error, when s is the current call, is the error kept
OneRun(res) ==
    IF res.nruns_completed = 0
    THEN res.error = None /\ res.row_clusters = None /\ res.col_clusters = None
    ELSE /\ res.error # None
         /\ \E s \in 1..MaxSessions, i \in 1..MaxRuns :
              /\ res.row_clusters = <<s, i, "row">>
              /\ res.col_clusters = <<s, i, "col">>
              /\ s <= session
              /\ s = session =>
                   /\ i \in 1..NRuns
                   /\ futures[i].st = "consumed"
                   /\ res.error = Some(futures[i].e)

C29_Step ==
    /\ (results.error # None /\ ctor = "ok") =>
         /\ results'.error # None
         /\ results'.error[1] <= results.error[1]
    /\ nwrites' # nwrites /\ session' = session =>
         /\ OneRun(results)'
         /\ disk' = Some(Snapshot(results', heap'))

\* C29: the aggregate is of one piece: the row labels, the column labels
\* and the error are those of one and the same run, in every state, hence
\* at every write and at return; the error is None only while no result
\* has been taken; what a write persists is that aggregate; and the best
\* error never increases.
C29_AggregateOfOneRun ==
    [](ctor = "ok" => OneRun(results)) /\ [][C29_Step]_vars

C29_Witness ==
    /\ session = 1 /\ pc = "returned" /\ NRuns = 2
    /\ futures[1].e < futures[2].e
    /\ results.row_clusters = <<1, 1, "row">>
    /\ results.col_clusters = <<1, 1, "col">>
    /\ results.error = Some(futures[1].e)
    /\ nwrites = 2
    /\ disk = Some(Snapshot(results, heap))


InitOpt ==
    /\ ctor = "new"
    /\ self = NoSelf
    /\ results = CoclusteringResults
    /\ heap = [r \in Refs |-> Unallocated]
    /\ ret = None
    /\ call = NoCall
    /\ pc = "idle"
    /\ futures = <<>>
    /\ session = 0
    /\ nwrites = 0
    /\ disk = None
    /\ ncaller = 0
    /\ dist = NoScatter
    /\ geo = GeoIdle
    /\ it = IterIdle
    /\ km = KmNew
    /\ blk = BlkIdle
    /\ fp = FpIdle
    /\ mem = MemIdle
    /\ \E errobj \in 1..MaxThreshold, niters \in 0..MaxIters :
         \/ \E ri \in {None} \cup SuppliedInits(ZRows),
               ci \in {None} \cup SuppliedInits(ZCols),
               bi \in {None} \cup SuppliedInits(ZBnds) :
              \E r \in EntryLabels(ri, ZRows), c \in EntryLabels(ci, ZCols),
                 b \in EntryLabels(bi, ZBnds) :
                opt = Triclustering(errobj, niters, ri, ci, bi, r, c, b)
         \/ \E r \in InitializeClusters(ZRows),
               c \in InitializeClusters(ZCols) :
              opt = CoclusteringDask(errobj, niters, r, c)

NextOpt ==
    \/ OptWhile
    \/ OptRow
    \/ OptCol
    \/ OptBnd

\* a run is synchronous array arithmetic: it is not suspended for ever
SpecOpt == InitOpt /\ [][NextOpt]_vars /\ WF_vars(NextOpt)

(***************************************************************************)
(* Properties of the optimizer.                                            *)
(***************************************************************************)
OptReturned == opt.pc = "done"

C8_Safe ==
    /\ opt.s <= opt.niters
    /\ OptReturned =>
         /\ opt.converged =>
              /\ opt.s >= 1
              /\ Abs(opt.e - opt.old_e) < opt.errobj
         /\ ~opt.converged => opt.s = opt.niters

\* C8: a run performs at most max_iterations iterations and ends; the
\* iteration count it returns is at most max_iterations; converged = TRUE
\* implies that the last iteration performed changed the error by less
\* than conv_threshold; converged = FALSE implies that max_iterations
\* iterations were performed.
C8_Terminates == []C8_Safe /\ <>(opt.pc \in {"done", "raised"})

C8_Witness ==
    /\ OptReturned /\ ~opt.converged /\ opt.s = MaxIters /\ opt.niters = MaxIters

\* C9: a run that reports converged has performed at least two iterations.
C9_NoConvergenceAtFirstIteration ==
    (OptReturned /\ opt.converged) => opt.s >= 2

SuppliedValid(o) ==
    /\ o.row_clusters_init # None => ValidLabels(o.row_clusters_init, ZRows)
    /\ o.col_clusters_init # None => ValidLabels(o.col_clusters_init, ZCols)
    /\ o.bnd_clusters_init # None => ValidLabels(o.bnd_clusters_init, ZBnds)

LabelsValid(o) ==
    /\ ValidLabels(o.row_clusters, ZRows)
    /\ ValidLabels(o.col_clusters, ZCols)
    /\ o.kind = "triclustering" => ValidLabels(o.bnd_clusters, ZBnds)

InitIter ==
    /\ ctor = "new"
    /\ self = NoSelf
    /\ results = CoclusteringResults
    /\ heap = [r \in Refs |-> Unallocated]
    /\ ret = None
    /\ call = NoCall
    /\ pc = "idle"
    /\ futures = <<>>
    /\ session = 0
    /\ nwrites = 0
    /\ disk = None
    /\ ncaller = 0
    /\ dist = NoScatter
    /\ geo = GeoIdle
    /\ opt = OptIdle
    /\ km = KmNew
    /\ blk = BlkIdle
    /\ fp = FpIdle
    /\ mem = MemIdle
    /\ \E errobj \in 1..MaxThreshold :
         \/ \E r \in InitializeClusters(ZRows), c \in InitializeClusters(ZCols),
               b \in InitializeClusters(ZBnds) :
              it = TriclusteringBody(errobj, r, c, b)
         \/ \E r \in InitializeClusters(ZRows),
               c \in InitializeClusters(ZCols) :
              it = CoclusteringBody(errobj, r, c)

NextIter ==
    \/ IterSetup
    \/ IterRow
    \/ IterCol
    \/ IterBnd
    \/ IterError

SpecIter == InitIter /\ [][NextIter]_vars

Tri(o) == o.kind = "triclustering"

\* C19: the distance of an axis is taken against the partitions in force of
\* the other axes: at the row step the column and band labels of the
\* previous iteration, at the column step the row labels just reassigned
\* and the band labels of the previous iteration, at the band step the row
\* and column labels just reassigned; in the triclustering and in the Dask
\* coclustering alike.
C19_ReadsLabelsInForce ==
    /\ it.pc = "row" =>
         /\ RowUnpack(it).col = it.col_clusters
         /\ Tri(it) => RowUnpack(it).bnd = it.bnd_clusters
    /\ it.pc = "col" =>
         /\ ColUnpack(it).row = it.row_clusters
         /\ Tri(it) => ColUnpack(it).bnd = it.bnd_clusters
    /\ it.pc = "bnd" =>
         /\ BndUnpack(it).row = it.row_clusters
         /\ BndUnpack(it).col = it.col_clusters

\* labels gives every position a cluster of least distance in d, the one
\* of lowest index among them
FirstOfLeast(d, labels) ==
    /\ DOMAIN labels = DOMAIN d
    /\ \A p \in DOMAIN d :
         /\ labels[p] \in Clusters
         /\ \A c \in Clusters : d[p][labels[p]] <= d[p][c]
         /\ \A c \in Clusters : c < labels[p] => d[p][c] > d[p][labels[p]]

\* C21: once the distance matrix of an axis has been computed in an
\* iteration, the labels of that axis give every position a cluster whose
\* distance is the least of the row, and of several such clusters the one
\* of lowest index; the labels are thereby fixed by the distance matrix.
C21_LeastDistanceLowestIndex ==
    /\ it.d_row # <<>> => FirstOfLeast(it.d_row, it.row_clusters)
    /\ it.d_col # <<>> => FirstOfLeast(it.d_col, it.col_clusters)
    /\ it.d_bnd # <<>> => FirstOfLeast(it.d_bnd, it.bnd_clusters)

C21_Witness ==
    /\ it.kind = "triclustering" /\ it.pc = "error"
    /\ it.d_row[1][0] = it.d_row[1][1] /\ it.row_clusters[1] = 0
    /\ it.d_row[2][1] < it.d_row[2][0] /\ it.row_clusters[2] = 1
    /\ it.d_col[3][0] = it.d_col[3][1] /\ it.col_clusters[3] = 0
    /\ it.d_bnd[1][1] < it.d_bnd[1][0] /\ it.bnd_clusters[1] = 1

\* the distance of position p to the cluster the labels assign it to, summed
RECURSIVE AssignedSum(_, _)
AssignedSum(d, labels) ==
    IF d = <<>> THEN 0
    ELSE d[1][labels[1]] + AssignedSum(Tail(d), Tail(labels))

RECURSIVE LeastSum(_)
LeastSum(d) ==
    IF d = <<>> THEN 0
    ELSE (CHOOSE x \in {d[1][c] : c \in Clusters} :
            \A c \in Clusters : x <= d[1][c]) + LeastSum(Tail(d))

LastDistance(o) == IF Tri(o) THEN o.d_bnd ELSE o.d_col

LastLabels(o) == IF Tri(o) THEN o.bnd_clusters ELSE o.col_clusters

\* C20: after an iteration the error is the sum, over the positions of the
\* axis processed last (band in the triclustering, column in the Dask
\* coclustering), of the least distance over the candidate clusters, which
\* is the distance to the cluster the position was just assigned to; the
\* row distances (and the column distances of a triclustering) take no
\* part in it.
C20_ErrorIsLastAxisSum ==
    (it.pc = "head" /\ it.s >= 1) =>
        /\ it.e = LeastSum(LastDistance(it))
        /\ it.e = AssignedSum(LastDistance(it), LastLabels(it))

C20_Witness ==
    /\ it.pc = "head" /\ it.s = 1 /\ Tri(it)
    /\ it.e = 1
    /\ SumSeq([p \in 1..ZRows |-> it.d_row[p][it.row_clusters[p]]]) = 2
    /\ it.bnd_clusters = <<1, 0>>

(***************************************************************************)
(* The refinement on its own.                                              *)
(***************************************************************************)
InitKm ==
    /\ ctor = "new"
    /\ self = NoSelf
    /\ results = CoclusteringResults
    /\ heap = [r \in Refs |-> Unallocated]
    /\ ret = None
    /\ call = NoCall
    /\ pc = "idle"
    /\ futures = <<>>
    /\ session = 0
    /\ nwrites = 0
    /\ disk = None
    /\ ncaller = 0
    /\ dist = NoScatter
    /\ geo = GeoIdle
    /\ opt = OptIdle
    /\ it = IterIdle
    /\ km = KmNew
    /\ blk = BlkIdle
    /\ fp = FpIdle
    /\ mem = MemIdle

NextKm ==
    \/ KmeansConstruct
    \/ KmeansCompute

SpecKm == InitKm /\ [][NextKm]_vars

(***************************************************************************)
(* Properties of the refinement.                                           *)
(***************************************************************************)
\* a block is populated when some element of Z carries its pair of labels
Populated(b) ==
    \E i \in DOMAIN km.clusters[1], j \in DOMAIN km.clusters[2] :
      km.clusters[1][i] = b[1] /\ km.clusters[2][j] = b[2]

NPopulated == Cardinality({b \in Blocks(km.nclusters) : Populated(b)})

\* C13: a Kmeans object exists only when every k of its k_range lies
\* between 2 and the number of populated blocks.
C13_KRangeWithinPopulated ==
    km.pc \in {"ok", "computed"} =>
        \A p \in DOMAIN km.k_range :
          2 <= km.k_range[p] /\ km.k_range[p] <= NPopulated

Malformed ==
    \/ Len(km.clusters) # 2
    \/ \E a \in DOMAIN km.clusters : Len(km.clusters[a]) # KmShape[a]
    \/ \E a \in DOMAIN km.clusters : \E p \in DOMAIN km.clusters[a] :
         km.clusters[a][p] >= km.nclusters[a]

\* C14: when the number of label arrays is not the number of axes of Z, or
\* a label array has not the length of its axis, or a label is not below
\* the number of clusters of its axis, the constructor raises ValueError:
\* no object exists and compute is never run.
C14_MalformedRejected ==
    (km.pc # "new" /\ Malformed) =>
        /\ km.pc = "raised"
        /\ km.error = Some("ValueError")
        /\ km.Z = None
        /\ km.results = KmeansResults

C14_Witness ==
    /\ km.pc = "raised"
    /\ Len(km.clusters) = 2
    /\ Len(km.clusters[1]) = ZRows /\ Len(km.clusters[2]) = ZCols
    /\ km.nclusters = <<2, 1>>
    /\ km.clusters[2] = [j \in 1..ZCols |-> IF j = ZCols THEN 1 ELSE 0]
    /\ km.k_range_arg = Some(<<2>>)

\* C15: the selected k has the highest score of the k tested, it is the
\* smallest k with that score, and the k are tested in ascending order
\* whatever the order of the k_range given.
C15_SmallestBestK ==
    km.results.k_value # None =>
        LET scores == km.results.measure_list[1]
            best == {p \in DOMAIN scores :
                       \A p2 \in DOMAIN scores : scores[p2] <= scores[p]}
        IN  /\ DOMAIN scores = DOMAIN km.k_range
            /\ \A p, p2 \in DOMAIN km.k_range :
                 p < p2 => km.k_range[p] <= km.k_range[p2]
            /\ km.k_range_arg # None =>
                 /\ Range(km.k_range) = Range(km.k_range_arg[1])
                 /\ Len(km.k_range) = Len(km.k_range_arg[1])
            /\ \E p \in best : km.results.k_value = Some(km.k_range[p])
            /\ \A p \in best : km.results.k_value[1] <= km.k_range[p]

C15_Witness ==
    /\ km.pc = "computed"
    /\ km.k_range_arg = Some(<<3, 2>>)
    /\ km.results.measure_list = Some(<<1, 1>>)
    /\ km.results.k_value = Some(2)

\* the elements of Z whose block was given the same refined label as b
SameGroupElements(b) ==
    {el \in (1..ZRows) \X (1..ZCols) :
       km.results.labels[1][<<km.clusters[1][el[1]], km.clusters[2][el[2]]>>]
         = km.results.labels[1][b]}

\* C16: after compute, cluster_averages has the shape of nclusters; it is
\* NaN exactly at the blocks that are not populated; and at a populated
\* block it is the mean of all the elements of Z that belong to a block of
\* the same refined group.
C16_AveragesArePooledMeans ==
    km.pc = "computed" =>
        LET avg == km.results.cluster_averages[1]
        IN  /\ DOMAIN avg = Blocks(km.nclusters)
            /\ \A b \in Blocks(km.nclusters) :
                 /\ avg[b] = NaN <=> ~Populated(b)
                 /\ Populated(b) =>
                      /\ avg[b][2] = Cardinality(SameGroupElements(b))
                      /\ avg[b][1] =
                           SumFn([el \in SameGroupElements(b) |->
                                    km.Z[1][el[1]][el[2]]],
                                 SameGroupElements(b))

C16_Witness ==
    /\ km.pc = "computed"
    /\ km.nclusters = <<3, 2>>
    /\ km.clusters = <<<<0, 1>>, <<0, 0, 1>>>>
    /\ km.results.cluster_averages[1][<<2, 0>>] = NaN
    /\ km.results.labels[1][<<0, 0>>] = km.results.labels[1][<<1, 1>>]
    /\ km.results.labels[1][<<0, 0>>] # km.results.labels[1][<<0, 1>>]
    /\ km.results.cluster_averages[1][<<0, 0>>] = <<2, 3>>

\* C17: after compute, results.labels has the shape of nclusters; a cell
\* holds a label below k_value exactly when its block is populated and NaN
\* otherwise; and the label at a populated cell is the one k-means gave to
\* the row of the feature matrix that belongs to that block.
C17_LabelsWrittenInRowOrder ==
    km.pc = "computed" =>
        LET labels == km.results.labels[1]
            rows == StatMeasureBlocks(km.clusters, km.nclusters)
        IN  /\ DOMAIN labels = Blocks(km.nclusters)
            /\ \A b \in Blocks(km.nclusters) :
                 IF Populated(b)
                 THEN /\ labels[b] # NaN
                      /\ labels[b][1] \in 0..(km.results.k_value[1] - 1)
                 ELSE labels[b] = NaN
            /\ Len(rows) = Len(km.kmean_labels)
            /\ \A t \in DOMAIN rows : labels[rows[t]] = Some(km.kmean_labels[t])

C17_Witness ==
    /\ km.pc = "computed"
    /\ km.nclusters = <<3, 2>>
    /\ km.clusters[1] = <<0, 1>>
    /\ km.kmean_labels = <<0, 1, 1, 0>>
    /\ km.results.k_value = Some(2)
    /\ km.results.labels = Some([b \in Blocks(<<3, 2>>) |->
                                   IF b[1] = 2 THEN NaN
                                   ELSE IF b[1] = b[2] THEN <<0>> ELSE <<1>>])

(***************************************************************************)
(* The block averages on their own.                                        *)
(***************************************************************************)
InitBlk ==
    /\ ctor = "new"
    /\ self = NoSelf
    /\ results = CoclusteringResults
    /\ heap = [r \in Refs |-> Unallocated]
    /\ ret = None
    /\ call = NoCall
    /\ pc = "idle"
    /\ futures = <<>>
    /\ session = 0
    /\ nwrites = 0
    /\ disk = None
    /\ ncaller = 0
    /\ dist = NoScatter
    /\ geo = GeoIdle
    /\ opt = OptIdle
    /\ it = IterIdle
    /\ km = KmNew
    /\ blk = BlkIdle
    /\ fp = FpIdle
    /\ mem = MemIdle

NextBlk ==
    \/ BlkEnter
    \/ BlkAverages
    \/ BlkReassign

SpecBlk == InitBlk /\ [][NextBlk]_vars

\* the labels of an element of Z, in the order of the axes of a block
BlockOf(o, el) ==
    IF o.kind = "triclustering"
    THEN <<o.bnd_clusters[el[1]], o.row_clusters[el[2]], o.col_clusters[el[3]]>>
    ELSE <<o.row_clusters[el[1]], o.col_clusters[el[2]]>>

\* the elements of Z whose labels are those of the block
ElementsOf(o, cell) == {el \in Elements(o.kind) : BlockOf(o, el) = cell}

\* C22: once the averages of an iteration are computed, the tensor has one
\* cell per combination of clusters, populated or not; the count of a
\* cell is the number of elements of Z whose labels are those of the
\* cell; the cell is (sum of those elements + Gavg * epsilon) / (their
\* number + epsilon), Gavg being the mean of Z; and the cell of an empty
\* block is Gavg.
C22_BlockAverages ==
    blk.pc = "averaged" =>
        /\ DOMAIN blk.TriCavg = Cells(blk.kind, blk.k)
        /\ \A cell \in Cells(blk.kind, blk.k) :
             LET els == ElementsOf(blk, cell)
                 sum == SumFn([el \in els |-> At(blk.kind, blk.Z, el)], els)
                 mean == Mean(blk.kind, blk.Z)
             IN  /\ blk.nel_clusters[cell] = Cardinality(els)
                 /\ blk.TriCavg[cell][2] > 0
                 /\ REq(blk.TriCavg[cell],
                        RDiv(RAdd(Rat(sum), RMul(mean, blk.epsilon)),
                             RAdd(Rat(Cardinality(els)), blk.epsilon)))
                 /\ els = {} => REq(blk.TriCavg[cell], mean)

C22_Witness ==
    /\ blk.pc = "averaged" /\ blk.kind = "triclustering" /\ blk.s = 1
    /\ blk.k = [row |-> 2, col |-> 2, bnd |-> 2]
    /\ blk.row_clusters = <<1, 1>>
    /\ blk.col_clusters = <<0, 1, 1>>
    /\ blk.bnd_clusters = <<0, 1>>
    /\ blk.Gavg = <<6, 12>>
    /\ blk.nel_clusters[<<0, 0, 0>>] = 0
    /\ REq(blk.TriCavg[<<0, 0, 0>>], <<1, 2>>)
    /\ blk.nel_clusters[<<1, 1, 1>>] = 4
    /\ ~REq(blk.TriCavg[<<1, 1, 1>>], <<1, 2>>)

\* the number of positions of an axis with a label
SizeOf(labels, c) == Cardinality({p \in DOMAIN labels : labels[p] = c})

\* the labels of an axis of n_el positions are a permutation of the
\* residues i mod n_clusters
PermutedResidues(labels, n_el, n_clusters) ==
    /\ DOMAIN labels = 1..n_el
    /\ \A p \in 1..n_el : labels[p] \in 0..(n_clusters - 1)
    /\ \A c \in 0..(n_clusters - 1) :
         SizeOf(labels, c)
           = Cardinality({i \in 0..(n_el - 1) : i % n_clusters = c})
    /\ \A c1, c2 \in 0..(n_clusters - 1) :
         SizeOf(labels, c1) - SizeOf(labels, c2) \in {-1, 0, 1}
    /\ n_el >= n_clusters =>
         \A c \in 0..(n_clusters - 1) : SizeOf(labels, c) >= 1

\* C23: the partition an axis of n positions gets from the random
\* initialization into c clusters is a permutation of the residues
\* i mod c: every label is below c, two clusters differ in size by one at
\* most, and no cluster is empty when n >= c.
C23_InitialPartitions ==
    (blk.pc # "idle" /\ blk.s = 0) =>
        /\ PermutedResidues(blk.row_clusters, ZRows, blk.k.row)
        /\ PermutedResidues(blk.col_clusters, ZCols, blk.k.col)
        /\ blk.kind = "triclustering" =>
             PermutedResidues(blk.bnd_clusters, ZBnds, blk.k.bnd)

C23_Witness ==
    /\ blk.pc = "head" /\ blk.s = 0 /\ blk.kind = "triclustering"
    /\ blk.k = [row |-> 3, col |-> 2, bnd |-> 2]
    /\ blk.row_clusters = <<1, 0>>
    /\ blk.col_clusters = <<1, 0, 0>>
    /\ blk.bnd_clusters = <<0, 1>>

(***************************************************************************)
(* The loop over repeated partitions on its own.                           *)
(***************************************************************************)
InitFp ==
    /\ ctor = "new"
    /\ self = NoSelf
    /\ results = CoclusteringResults
    /\ heap = [r \in Refs |-> Unallocated]
    /\ ret = None
    /\ call = NoCall
    /\ pc = "idle"
    /\ futures = <<>>
    /\ session = 0
    /\ nwrites = 0
    /\ disk = None
    /\ ncaller = 0
    /\ dist = NoScatter
    /\ geo = GeoIdle
    /\ opt = OptIdle
    /\ it = IterIdle
    /\ km = KmNew
    /\ blk = BlkIdle
    /\ fp = FpIdle
    /\ mem = MemIdle

NextFp ==
    \/ FpEnter
    \/ FpIterate
    \/ FpReturn

SpecFp == InitFp /\ [][NextFp]_vars

C30_Step ==
    /\ (fp.pc = "while" /\ fp.fixed /\ fp'.s = fp.s + 1) =>
         /\ Partitions(fp') = Partitions(fp)
         /\ fp'.e = fp.e
         /\ fp'.e - fp'.old_e = 0
         /\ fp.errobj > 0 => fp'.converged
    /\ (fp.pc = "while" /\ fp.converged) =>
         /\ fp'.pc = "done"
         /\ fp'.s = fp.s /\ fp'.e = fp.e
         /\ Partitions(fp') = Partitions(fp)

InitMem ==
    /\ ctor = "new"
    /\ self = NoSelf
    /\ results = CoclusteringResults
    /\ heap = [r \in Refs |-> Unallocated]
    /\ ret = None
    /\ call = NoCall
    /\ pc = "idle"
    /\ futures = <<>>
    /\ session = 0
    /\ nwrites = 0
    /\ disk = None
    /\ ncaller = 0
    /\ dist = NoScatter
    /\ geo = GeoIdle
    /\ opt = OptIdle
    /\ it = IterIdle
    /\ km = KmNew
    /\ blk = BlkIdle
    /\ fp = FpIdle
    /\ mem = MemIdle

NextMem ==
    \/ MemSubmit
    \/ \E i \in 1..MaxConcurrent : MemEnter(i)
    \/ \E i \in 1..MaxConcurrent : MemAverages(i)
    \/ \E i \in 1..MaxConcurrent : MemAssign(i)
    \/ \E i \in 1..MaxConcurrent : MemReturn(i)

SpecMem == InitMem /\ [][NextMem]_vars

\* the arrays run i holds come from the caller and from run i only
OwnSourcesOnly(i) ==
    /\ \A n \in 1..3 :
         mem.runs[i].bind[LabelAxes[n]] /= "none" =>
           Bound(mem, i, LabelAxes[n]).sources \in {{0}, {i}, {0, i}}
    /\ mem.runs[i].TriCavg.sources \subseteq {0, i}
    /\ mem.runs[i].e.sources \subseteq {0, i}

\* C26: while runs execute concurrently on the same data array and the
\* same caller-supplied initial arrays, in any interleaving, the data array
\* and the initial arrays keep the content the caller gave them, and the
\* labels, the block averages and the error of a run have no other source
\* than the caller's arrays and the run's own computation.
C26_NoSharedMutableState ==
    mem.pc = "submitted" =>
      /\ mem.Z = CallerArray
      /\ \A n \in 1..3 :
           mem.init[LabelAxes[n]] =
             IF LabelAxes[n] \in mem.given THEN CallerArray ELSE NoArray
      /\ \A i \in 1..MaxConcurrent : OwnSourcesOnly(i)

C26_Witness ==
    /\ mem.pc = "submitted"
    /\ mem.given = {"row", "col"}
    /\ mem.runs[1].pc = "done" /\ mem.runs[1].s = 2
    /\ mem.runs[1].bind.row = "own" /\ mem.runs[1].e.sources = {0, 1}
    /\ mem.runs[2].pc = "col" /\ mem.runs[2].s = 0
    /\ mem.runs[2].bind.row = "own" /\ mem.runs[2].bind.col = "init"
    /\ mem.runs[2].own.row.sources = {0, 2}

(***************************************************************************)
(* run_with_threads with the optimizer of every run followed: the run a    *)
(* worker executes is a call of the optimizer with self.conv_threshold,    *)
(* self.max_iterations and the initial arrays of the object, and what the  *)
(* call returns is the result of the future.  The optimizer is followed    *)
(* for one run at a time, the running one of lowest index.  The idle       *)
(* optimizer record carries conv_threshold and max_iterations; the         *)
(* iteration limit may be zero or negative.  One call of run_with_threads  *)
(* on a new object is followed.                                            *)
(***************************************************************************)
ExecutingRun == Min({i \in 1..NRuns : futures[i].st = "running"})

OptParams(errobj, niters) ==
    [OptIdle EXCEPT !.errobj = errobj, !.niters = niters]

\* the call of coclustering.py:138-149 enters the optimizer (lines 44-59)
RunCall ==
    /\ call.method = "run_with_threads"
    /\ Count("running") > 0
    /\ opt.pc = "idle"
    /\ \E r \in EntryLabels(self.row_clusters_init, ZRows),
          c \in EntryLabels(self.col_clusters_init, ZCols),
          b \in InitializeClusters(ZBnds) :
         opt' = Triclustering(opt.errobj, opt.niters,
                              self.row_clusters_init, self.col_clusters_init,
                              None, r, c, b)
    /\ UNCHANGED <<ovars, geo, it, km, blk, fp, mem>>

\* line 125: return converged, s, row_clusters, col_clusters, bnd_clusters, e
RunReturn ==
    /\ opt.pc = "done"
    /\ futures' = [futures EXCEPT ![ExecutingRun] =
                      [st |-> "finished", failed |-> FALSE,
                       converged |-> opt.converged, e |-> opt.e]]
    /\ opt' = OptParams(opt.errobj, opt.niters)
    /\ UNCHANGED <<ctor, self, results, heap, ret, call, pc, session,
                   nwrites, disk, ncaller, dist, geo, it, km, blk, fp, mem>>

\* the optimizer raised: the future holds the exception
RunRaise ==
    /\ opt.pc = "raised"
    /\ futures' = [futures EXCEPT ![ExecutingRun] =
                      [st |-> "finished", failed |-> TRUE,
                       converged |-> FALSE, e |-> 0]]
    /\ opt' = OptParams(opt.errobj, opt.niters)
    /\ UNCHANGED <<ctor, self, results, heap, ret, call, pc, session,
                   nwrites, disk, ncaller, dist, geo, it, km, blk, fp, mem>>

InitRun ==
    /\ ctor = "new"
    /\ self = NoSelf
    /\ results = CoclusteringResults
    /\ heap = [r \in Refs |-> Unallocated]
    /\ ret = None
    /\ call = NoCall
    /\ pc = "idle"
    /\ futures = <<>>
    /\ session = 0
    /\ nwrites = 0
    /\ disk = None
    /\ ncaller = 0
    /\ dist = NoScatter
    /\ geo = GeoIdle
    /\ opt \in {OptParams(errobj, niters) :
                  errobj \in 1..MaxThreshold,
                  niters \in (0 - MaxBody)..MaxBody}
    /\ it = IterIdle
    /\ km = KmNew
    /\ blk = BlkIdle
    /\ fp = FpIdle
    /\ mem = MemIdle

NextRun ==
    \/ Construct
    \/ Enter /\ session = 0 /\ call'.method = "run_with_threads"
    \/ Submit
    \/ Start
    \/ RunCall
    \/ OptWhile
    \/ OptRow
    \/ OptCol
    \/ OptBnd
    \/ RunReturn
    \/ RunRaise
    \/ Consume
    \/ Unwind
    \/ Return

SpecRun == InitRun /\ [][NextRun]_vars

C31_Step ==
    /\ (opt.pc = "while" /\ opt.niters <= 0 /\ opt' # opt) =>
         opt' = [opt EXCEPT !.pc = "done"]
    /\ (opt.pc = "done" /\ opt.niters <= 0 /\ opt' # opt) =>
         /\ futures[ExecutingRun].st = "running"
         /\ futures' = [futures EXCEPT ![ExecutingRun] =
                           [st |-> "finished", failed |-> FALSE,
                            converged |-> FALSE, e |-> 2 * opt.errobj]]
    /\ (opt.niters <= 0 /\ session = 1 /\ \E i \in 1..NRuns : Consumes(i)) =>
         /\ results'.nruns_completed = results.nruns_completed + 1
         /\ results'.nruns_converged = 0
         /\ results'.error = Some(2 * opt.errobj)

C31_Returned ==
    opt.niters <= 0 =>
      /\ opt.pc \in {"while", "done"} =>
           /\ opt.s = 0 /\ ~opt.converged
           /\ opt.e = 2 * opt.errobj
           /\ opt.row_clusters_init # None =>
                opt.row_clusters = opt.row_clusters_init
           /\ opt.col_clusters_init # None =>
                opt.col_clusters = opt.col_clusters_init
      /\ (pc = "returned" /\ session = 1) =>
           /\ results.nruns_completed = NRuns
           /\ results.nruns_converged = 0
           /\ results.error = Some(2 * opt.errobj)

\* C31: with max_iterations <= 0 a run of the optimizer leaves the loop at
\* its first test: between its entry and its return nothing changes, so it
\* returns converged = FALSE, 0 iterations, the partitions it entered with
\* and the error 2 * conv_threshold; the orchestrator counts each such run
\* as completed and not converged and keeps 2 * conv_threshold as the best
\* error of the call.
C31_ZeroIterations == [][C31_Step]_vars /\ []C31_Returned

C31_Witness ==
    /\ pc = "returned" /\ session = 1 /\ NRuns = 2
    /\ opt.niters = 0 - 1 /\ opt.errobj = 2
    /\ results.nruns_completed = 2 /\ results.nruns_converged = 0
    /\ results.error = Some(4)

====
